---- MODULE Spec2Model ----
(***************************************************************************)
(* The alignment and normalisation engine of the Tur commentary merger     *)
(* (src/merge_tur_separate_commentaries.py, class TurCommentaryMerger).    *)
(*                                                                         *)
(* A Python str is a sequence of one-character strings, so that the        *)
(* regular expressions, strip(), zfill() and the f-strings of the source   *)
(* are computed character by character.                                    *)
(***************************************************************************)
EXTENDS Integers, Sequences, FiniteSets, TLC

Range(s) == {s[i] : i \in 1..Len(s)}

Min(S) == CHOOSE x \in S : \A y \in S : x <= y

\* Python's None, where a str is expected: no str has a two-character element.
None == <<"None">>

\* bool(x) of an Optional[str]: None and "" are false.
Truthy(s) == s # None /\ s # <<>>

(***************************************************************************)
(* Character classes of the regular expressions.                           *)
(***************************************************************************)
Digits == {"0", "1", "2", "3", "4", "5", "6", "7", "8", "9"}

Letters ==
    {"a", "b", "c", "d", "e", "f", "g", "h", "i", "j", "k", "l", "m",
     "n", "o", "p", "q", "r", "s", "t", "u", "v", "w", "x", "y", "z",
     "A", "B", "C", "D", "E", "F", "G", "H", "I", "J", "K", "L", "M",
     "N", "O", "P", "Q", "R", "S", "T", "U", "V", "W", "X", "Y", "Z"}

\* \s
Spaces == {" ", "\t", "\n"}

IsSpace(c) == c \in Spaces

\* \d
IsDigit(c) == c \in Digits

\* \w, as \b reads it
WordChars == Letters \cup Digits \cup {"_"}

IsWordChar(c) == c \in WordChars

\* [A-Za-z_:]
AttrNameStarts == Letters \cup {"_", ":"}

IsAttrNameStart(c) == c \in AttrNameStarts

\* [-A-Za-z0-9_:.]
AttrNameChars == Letters \cup Digits \cup {"-", "_", ":", "."}

IsAttrNameChar(c) == c \in AttrNameChars

DigitVal(c) ==
    CASE c = "0" -> 0 [] c = "1" -> 1 [] c = "2" -> 2 [] c = "3" -> 3
      [] c = "4" -> 4 [] c = "5" -> 5 [] c = "6" -> 6 [] c = "7" -> 7
      [] c = "8" -> 8 [] c = "9" -> 9

DigitChar(n) ==
    CASE n = 0 -> "0" [] n = 1 -> "1" [] n = 2 -> "2" [] n = 3 -> "3"
      [] n = 4 -> "4" [] n = 5 -> "5" [] n = 6 -> "6" [] n = 7 -> "7"
      [] n = 8 -> "8" [] n = 9 -> "9"

(***************************************************************************)
(* str methods and number formatting.                                      *)
(***************************************************************************)
RECURSIVE LStrip(_)
LStrip(s) ==
    IF s # <<>> /\ IsSpace(Head(s)) THEN LStrip(Tail(s)) ELSE s

RECURSIVE RStrip(_)
RStrip(s) ==
    IF s # <<>> /\ IsSpace(s[Len(s)])
    THEN RStrip(SubSeq(s, 1, Len(s) - 1))
    ELSE s

\* str.strip()
Strip(s) == RStrip(LStrip(s))

\* str.replace(a, b) for one-character a and b
Replace(s, a, b) == [i \in 1..Len(s) |-> IF s[i] = a THEN b ELSE s[i]]

\* str(n) of a natural number
RECURSIVE NatToStr(_)
NatToStr(n) ==
    IF n < 10
    THEN <<DigitChar(n)>>
    ELSE NatToStr(n \div 10) \o <<DigitChar(n % 10)>>

\* int(s) of a run of digits
RECURSIVE StrToNat(_)
StrToNat(s) ==
    IF s = <<>>
    THEN 0
    ELSE 10 * StrToNat(SubSeq(s, 1, Len(s) - 1)) + DigitVal(s[Len(s)])

\* str.zfill(width), and f"{n:0<width>d}" of the digits of n
RECURSIVE ZFill(_, _)
ZFill(s, width) ==
    IF Len(s) >= width THEN s ELSE ZFill(<<"0">> \o s, width)

\* the _add closures: append a non-empty candidate not yet in the list
AddCandidate(list, candidate) ==
    IF candidate = <<>> \/ candidate \in Range(list)
    THEN list
    ELSE Append(list, candidate)

RECURSIVE AddAll(_, _)
AddAll(list, candidates) ==
    IF candidates = <<>>
    THEN list
    ELSE AddAll(AddCandidate(list, Head(candidates)), Tail(candidates))

(***************************************************************************)
(* Regular expressions.                                                    *)
(***************************************************************************)
\* The least position q >= p of s holding character c; 0 when there is none.
IndexFrom(s, c, p) ==
    LET hits == {q \in p..Len(s) : s[q] = c}
    IN  IF hits = {} THEN 0 ELSE Min(hits)

\* The position after the run of whitespace that starts at p.
RECURSIVE SkipSpace(_, _)
SkipSpace(s, p) ==
    IF p <= Len(s) /\ IsSpace(s[p]) THEN SkipSpace(s, p + 1) ELSE p

\* re.sub(r'\s+', ' ', s)
RECURSIVE CollapseWhitespace(_)
CollapseWhitespace(s) ==
    IF s = <<>>
    THEN <<>>
    ELSE IF IsSpace(Head(s))
         THEN <<" ">> \o CollapseWhitespace(LStrip(s))
         ELSE <<Head(s)>> \o CollapseWhitespace(Tail(s))

\* re.sub(r"\s+", "", s)
RemoveWhitespace(s) == SelectSeq(s, LAMBDA c : ~IsSpace(c))

\* re.sub(r'<[^>]+>', '', s), scanning from position p: a '<' opens a tag
\* when the first '>' after it is at least two places on.
RECURSIVE RemoveTagsFrom(_, _)
RemoveTagsFrom(s, p) ==
    IF p > Len(s)
    THEN <<>>
    ELSE LET q == IndexFrom(s, ">", p + 1)
         IN  IF s[p] = "<" /\ q >= p + 2
             THEN RemoveTagsFrom(s, q + 1)
             ELSE <<s[p]>> \o RemoveTagsFrom(s, p + 1)

RemoveTags(s) == RemoveTagsFrom(s, 1)

\* re.findall(r"\d+", s): the maximal runs of digits, left to right
RECURSIVE DigitRunEnd(_, _)
DigitRunEnd(s, p) ==
    IF p + 1 <= Len(s) /\ IsDigit(s[p + 1]) THEN DigitRunEnd(s, p + 1) ELSE p

RECURSIVE FindNumbersFrom(_, _)
FindNumbersFrom(s, p) ==
    IF p > Len(s)
    THEN <<>>
    ELSE IF IsDigit(s[p])
         THEN LET e == DigitRunEnd(s, p)
              IN  <<SubSeq(s, p, e)>> \o FindNumbersFrom(s, e + 1)
         ELSE FindNumbersFrom(s, p + 1)

FindNumbers(s) == FindNumbersFrom(s, 1)

\* PLACEHOLDER_PATTERN = <i\b([^>]*)></i>, IGNORECASE, tried at position p:
\* the position of the '>' that closes the opening tag, 0 when no match
\* starts at p.
PlaceholderCloseAt(s, p) ==
    IF /\ p + 1 <= Len(s)
       /\ s[p] = "<"
       /\ s[p + 1] \in {"i", "I"}
       /\ p + 2 <= Len(s)
       /\ ~IsWordChar(s[p + 2])
    THEN LET q == IndexFrom(s, ">", p + 2)
         IN  IF /\ q > 0
                /\ q + 4 <= Len(s)
                /\ s[q + 1] = "<"
                /\ s[q + 2] = "/"
                /\ s[q + 3] \in {"i", "I"}
                /\ s[q + 4] = ">"
             THEN q
             ELSE 0
    ELSE 0

NoMatch == [start |-> 0, end |-> 0, group1 |-> <<>>]

\* The first match of PLACEHOLDER_PATTERN at or after position from (the
\* next item of finditer): start and end are the first and last position of
\* the match, group1 the attribute text.
NextPlaceholder(s, from) ==
    LET starts == {p \in from..Len(s) : PlaceholderCloseAt(s, p) > 0}
    IN  IF starts = {}
        THEN NoMatch
        ELSE LET p == Min(starts)
                 q == PlaceholderCloseAt(s, p)
             IN  [start |-> p, end |-> q + 4, group1 |-> SubSeq(s, p + 2, q - 1)]

\* ATTR_PATTERN = ([A-Za-z_:][-A-Za-z0-9_:.]*)\s*=\s*"([^"]*)" tried at
\* position p: the match, or NoAttr.
RECURSIVE AttrNameEnd(_, _)
AttrNameEnd(s, p) ==
    IF p + 1 <= Len(s) /\ IsAttrNameChar(s[p + 1])
    THEN AttrNameEnd(s, p + 1)
    ELSE p

NoAttr == [end |-> 0, key |-> <<>>, value |-> <<>>]

AttrAt(s, p) ==
    IF ~IsAttrNameStart(s[p])
    THEN NoAttr
    ELSE LET e  == AttrNameEnd(s, p)
             eq == SkipSpace(s, e + 1)
         IN  IF eq > Len(s) \/ s[eq] # "="
             THEN NoAttr
             ELSE LET oq == SkipSpace(s, eq + 1)
                  IN  IF oq > Len(s) \/ s[oq] # "\""
                      THEN NoAttr
                      ELSE LET cq == IndexFrom(s, "\"", oq + 1)
                           IN  IF cq = 0
                               THEN NoAttr
                               ELSE [end   |-> cq,
                                     key   |-> SubSeq(s, p, e),
                                     value |-> SubSeq(s, oq + 1, cq - 1)]

\* ATTR_PATTERN.finditer(s) from position p: the matches, left to right
RECURSIVE FindAttrsFrom(_, _)
FindAttrsFrom(s, p) ==
    IF p > Len(s)
    THEN <<>>
    ELSE LET m == AttrAt(s, p)
         IN  IF m.end = 0
             THEN FindAttrsFrom(s, p + 1)
             ELSE <<m>> \o FindAttrsFrom(s, m.end + 1)

\* _parse_tag_attributes: the matches, the first of each key kept
RECURSIVE KeepFirstOfKey(_, _)
KeepFirstOfKey(matches, seen) ==
    IF matches = <<>>
    THEN <<>>
    ELSE IF Head(matches).key \in seen
         THEN KeepFirstOfKey(Tail(matches), seen)
         ELSE <<Head(matches)>>
              \o KeepFirstOfKey(Tail(matches), seen \cup {Head(matches).key})

ParseTagAttributes(tag_contents) ==
    KeepFirstOfKey(FindAttrsFrom(tag_contents, 1), {})

\* attrs.get(key): the value, or None
AttrGet(attrs, key) ==
    LET hits == {i \in 1..Len(attrs) : attrs[i].key = key}
    IN  IF hits = {} THEN None ELSE attrs[Min(hits)].value

\* clean_text: tags removed, whitespace collapsed, ends stripped
CleanText(text) == Strip(CollapseWhitespace(RemoveTags(text)))

(***************************************************************************)
(* The text cleaners of the other two mergers.                             *)
(***************************************************************************)
\* s has the characters of lit from position p on.
HasLiteralAt(s, p, lit) ==
    /\ p >= 1
    /\ p + Len(lit) - 1 <= Len(s)
    /\ SubSeq(s, p, p + Len(lit) - 1) = lit

CommentatorOpen ==
    <<"d", "a", "t", "a", "-", "c", "o", "m", "m", "e", "n", "t", "a", "t", "o", "r", "=", "\"">>

OrderOpen == <<"d", "a", "t", "a", "-", "o", "r", "d", "e", "r", "=", "\"">>

NoPlaceholder == [end |-> 0, commentator |-> <<>>, order |-> <<>>]

\* <i\s+data-commentator="([^"]*)"\s+data-order="([^"]*)"[^>]*></i> tried
\* at position p: the last position of the match and the two groups, or
\* NoPlaceholder.
FixedPlaceholderAt(s, p) ==
    IF ~(HasLiteralAt(s, p, <<"<", "i">>) /\ SkipSpace(s, p + 2) > p + 2)
    THEN NoPlaceholder
    ELSE LET c1 == SkipSpace(s, p + 2)
             c2 == IndexFrom(s, "\"", c1 + Len(CommentatorOpen))
         IN  IF ~HasLiteralAt(s, c1, CommentatorOpen) \/ c2 = 0
                  \/ SkipSpace(s, c2 + 1) = c2 + 1
             THEN NoPlaceholder
             ELSE LET o1 == SkipSpace(s, c2 + 1)
                      o2 == IndexFrom(s, "\"", o1 + Len(OrderOpen))
                  IN  IF ~HasLiteralAt(s, o1, OrderOpen) \/ o2 = 0
                      THEN NoPlaceholder
                      ELSE LET gt == IndexFrom(s, ">", o2 + 1)
                           IN  IF gt = 0 \/ ~HasLiteralAt(s, gt, <<">", "<", "/", "i", ">">>)
                               THEN NoPlaceholder
                               ELSE [end         |-> gt + 4,
                                     commentator |-> SubSeq(s, c1 + Len(CommentatorOpen), c2 - 1),
                                     order       |-> SubSeq(s, o1 + Len(OrderOpen), o2 - 1)]

\* re.sub of that pattern by '', scanning from position p
RECURSIVE RemovePlaceholdersFrom(_, _)
RemovePlaceholdersFrom(s, p) ==
    IF p > Len(s)
    THEN <<>>
    ELSE IF FixedPlaceholderAt(s, p).end > 0
         THEN RemovePlaceholdersFrom(s, FixedPlaceholderAt(s, p).end + 1)
         ELSE <<s[p]>> \o RemovePlaceholdersFrom(s, p + 1)

\* extract_placeholders: re.findall of that pattern from position p, the
\* (commentator, order) of each match
RECURSIVE ExtractPlaceholdersFrom(_, _)
ExtractPlaceholdersFrom(s, p) ==
    IF p > Len(s)
    THEN <<>>
    ELSE LET m == FixedPlaceholderAt(s, p)
         IN  IF m.end > 0
             THEN <<[commentator |-> m.commentator, order |-> m.order]>>
                  \o ExtractPlaceholdersFrom(s, m.end + 1)
             ELSE ExtractPlaceholdersFrom(s, p + 1)

ExtractPlaceholders(text) == ExtractPlaceholdersFrom(text, 1)

\* TurPlaceholderMerger.clean_text
PlaceholderCleanText(text, remove_placeholders) ==
    Strip(CollapseWhitespace(RemoveTags(
        IF remove_placeholders THEN RemovePlaceholdersFrom(text, 1) ELSE text)))

\* The characters [\x00-\x08\x0B-\x0C\x0E-\x1F\x7F] that are no whitespace;
\* "SOH" stands for U+0001 and "DEL" for U+007F, one character each.
ControlChars == {"SOH", "DEL"}

\* re.sub(r'[\x00-\x08\x0B-\x0C\x0E-\x1F\x7F]', '', s)
RemoveControlChars(s) == SelectSeq(s, LAMBDA c : c \notin ControlChars)

\* re.sub(r'\{[^}]*\}', '', s), scanning from position p
RECURSIVE RemoveBracesFrom(_, _)
RemoveBracesFrom(s, p) ==
    IF p > Len(s)
    THEN <<>>
    ELSE IF s[p] = "{" /\ IndexFrom(s, "}", p + 1) > 0
         THEN RemoveBracesFrom(s, IndexFrom(s, "}", p + 1) + 1)
         ELSE <<s[p]>> \o RemoveBracesFrom(s, p + 1)

\* TurMerger.clean_text: tags, whitespace, control characters, braces, ends
MergerCleanText(text) ==
    Strip(RemoveBracesFrom(RemoveControlChars(CollapseWhitespace(RemoveTags(text))), 1))

\* clean_text of the class named
CleanTextOf(class, text) ==
    CASE class = "TurCommentaryMerger"  -> CleanText(text)
      [] class = "TurPlaceholderMerger" -> PlaceholderCleanText(text, TRUE)
      [] class = "TurMerger"            -> MergerCleanText(text)

\* GenerateCommentaryKeys with the index never padded.
GenerateCommentaryKeysUnpadded(siman_num, index) ==
    LET u == NatToStr(siman_num)
        i == NatToStr(index)
    IN  AddAll(<<>>, <<u \o <<".">> \o i, u \o <<"-">> \o i, u \o <<":">> \o i, i>>)

\* GenerateCommentaryKeys without the key "u.i".
GenerateCommentaryKeysWithoutDot(siman_num, index) ==
    LET u == NatToStr(siman_num)
        i == NatToStr(index)
    IN  AddAll(<<>>, <<u \o <<".">> \o ZFill(i, 2),
                       u \o <<".">> \o ZFill(i, 3),
                       u \o <<"-">> \o i,
                       u \o <<":">> \o i,
                       ZFill(i, 1), ZFill(i, 2), ZFill(i, 3)>>)

\* GenerateCommentaryKeys with the bare unit ordinal as one more key.
GenerateCommentaryKeysWithUnit(siman_num, index) ==
    LET u == NatToStr(siman_num)
        i == NatToStr(index)
    IN  AddAll(<<>>, <<u \o <<".">> \o i,
                       u \o <<".">> \o ZFill(i, 2),
                       u \o <<".">> \o ZFill(i, 3),
                       u \o <<"-">> \o i,
                       u \o <<":">> \o i,
                       ZFill(i, 1), ZFill(i, 2), ZFill(i, 3), u>>)

(***************************************************************************)
(* Key Generator / Matcher.                                                *)
(***************************************************************************)
\* _generate_commentary_keys
GenerateCommentaryKeys(siman_num, index) ==
    LET u == NatToStr(siman_num)
        i == NatToStr(index)
        base_forms == <<u \o <<".">> \o i,
                        u \o <<".">> \o ZFill(i, 2),
                        u \o <<".">> \o ZFill(i, 3),
                        u \o <<"-">> \o i,
                        u \o <<":">> \o i>>
    IN  AddAll(AddAll(<<>>, base_forms),
               <<ZFill(i, 1), ZFill(i, 2), ZFill(i, 3)>>)

\* _normalise_order_candidates, after the strip: the candidates of a
\* non-empty order, in generation order
CandidatesOfStripped(order, siman_num) ==
    LET collapsed == RemoveWhitespace(order)
        textual   == <<order,
                       collapsed,
                       Replace(collapsed, "-", "."),
                       Replace(collapsed, ":", ".")>>
        numbers   == FindNumbers(collapsed)
    IN  IF numbers = <<>>
        THEN AddAll(<<>>, textual)
        ELSE LET first == numbers[1]
                 last  == numbers[Len(numbers)]
                 li    == NatToStr(StrToNat(last))
                 u     == NatToStr(siman_num)
                 numeric == <<first,
                              last,
                              first \o <<".">> \o last,
                              first \o <<"-">> \o last,
                              first \o <<":">> \o last,
                              li,
                              ZFill(li, 2),
                              ZFill(li, 3),
                              first \o <<".">> \o li,
                              first \o <<".">> \o ZFill(li, 2),
                              first \o <<"-">> \o li,
                              first \o <<":">> \o li>>
                 rebased == IF first # u
                            THEN <<u \o <<".">> \o li,
                                   u \o <<".">> \o ZFill(li, 2),
                                   u \o <<"-">> \o li,
                                   u \o <<":">> \o li>>
                            ELSE <<>>
             IN  AddAll(AddAll(AddAll(<<>>, textual), numeric), rebased)

\* _normalise_order_candidates that tries the bare numbers of the order
\* before the order as written.
NormaliseOrderCandidatesNumbersFirst(order, siman_num) ==
    IF ~Truthy(order)
    THEN <<>>
    ELSE AddAll(FindNumbers(Strip(order)),
                CandidatesOfStripped(Strip(order), siman_num))

\* _normalise_order_candidates
NormaliseOrderCandidates(order, siman_num) ==
    IF ~Truthy(order)
    THEN <<>>
    ELSE CandidatesOfStripped(Strip(order), siman_num)

\* One segment of _prepare_commentary_segments.
Segment(siman_num, idx, raw_text) ==
    [index |-> idx,
     raw   |-> raw_text,
     clean |-> CleanText(raw_text),
     keys  |-> GenerateCommentaryKeys(siman_num, idx)]

\* PrepareSegments that leaves the last fragment out.
PrepareSegmentsButLast(siman_num, commentary_segments) ==
    [idx \in 1..(IF commentary_segments = <<>>
                 THEN 0
                 ELSE Len(commentary_segments) - 1) |->
        Segment(siman_num, idx, commentary_segments[idx])]

\* _prepare_commentary_segments: the segments, index from 1
PrepareSegments(siman_num, commentary_segments) ==
    [idx \in 1..Len(commentary_segments) |->
        Segment(siman_num, idx, commentary_segments[idx])]

\* _prepare_commentary_segments: the lookup table, each key to the segments
\* indexed under it, in segment order
PrepareIndexMap(segs) ==
    [key \in UNION {Range(segs[j].keys) : j \in 1..Len(segs)} |->
        SelectSeq(segs, LAMBDA seg : key \in Range(seg.keys))]

\* index_map.get(candidate, [])
IndexMapGet(imap, candidate) ==
    IF candidate \in DOMAIN imap THEN imap[candidate] ELSE <<>>

\* FirstUnused without the test of used_indices.
FirstUnusedUnchecked(list, used) ==
    IF list = <<>> THEN <<>> ELSE <<list[1]>>

\* The first segment of a list whose index is not in used_indices, as a
\* list of at most one segment.
FirstUnused(list, used) ==
    LET free == {j \in 1..Len(list) : list[j].index \notin used}
    IN  IF free = {} THEN <<>> ELSE <<list[Min(free)]>>

\* MatchCandidates that tries the candidates from the last to the first.
RECURSIVE MatchCandidatesLastFirst(_, _, _)
MatchCandidatesLastFirst(candidates, imap, used) ==
    IF candidates = <<>>
    THEN <<>>
    ELSE LET last == candidates[Len(candidates)]
             hit  == FirstUnused(IndexMapGet(imap, last), used)
         IN  IF hit # <<>>
             THEN <<[segment |-> hit[1], key |-> last]>>
             ELSE MatchCandidatesLastFirst(
                      SubSeq(candidates, 1, Len(candidates) - 1), imap, used)

\* The candidate loop of _resolve_commentary_segment: the first candidate
\* with an unused segment under it.
RECURSIVE MatchCandidates(_, _, _)
MatchCandidates(candidates, imap, used) ==
    IF candidates = <<>>
    THEN <<>>
    ELSE LET hit == FirstUnused(IndexMapGet(imap, Head(candidates)), used)
         IN  IF hit # <<>>
             THEN <<[segment |-> hit[1], key |-> Head(candidates)]>>
             ELSE MatchCandidates(Tail(candidates), imap, used)

\* _resolve_commentary_segment that, with every segment consumed, hands out
\* the last segment again.
ResolveCommentarySegmentReusing(order, siman_num, segs, imap, used) ==
    LET matched  == IF Truthy(order)
                    THEN MatchCandidates(
                             NormaliseOrderCandidates(order, siman_num),
                             imap, used)
                    ELSE <<>>
        fallback == IF FirstUnused(segs, used) # <<>>
                    THEN FirstUnused(segs, used)
                    ELSE IF segs # <<>> THEN <<segs[Len(segs)]>> ELSE <<>>
    IN  IF matched # <<>>
        THEN [segment     |-> <<matched[1].segment>>,
              status      |-> "matched",
              matched_key |-> matched[1].key,
              used        |-> used \cup {matched[1].segment.index}]
        ELSE IF fallback # <<>>
             THEN [segment     |-> fallback,
                   status      |-> "fallback",
                   matched_key |-> fallback[1].keys[1],
                   used        |-> used \cup {fallback[1].index}]
             ELSE [segment     |-> <<>>,
                   status      |-> "missing",
                   matched_key |-> None,
                   used        |-> used]

\* _resolve_commentary_segment: the segment (a list of at most one), the
\* status, the matched key and used_indices as the call leaves it
ResolveCommentarySegment(order, siman_num, segs, imap, used) ==
    LET matched  == IF Truthy(order)
                    THEN MatchCandidates(
                             NormaliseOrderCandidates(order, siman_num),
                             imap, used)
                    ELSE <<>>
        fallback == FirstUnused(segs, used)
    IN  IF matched # <<>>
        THEN [segment     |-> <<matched[1].segment>>,
              status      |-> "matched",
              matched_key |-> matched[1].key,
              used        |-> used \cup {matched[1].segment.index}]
        ELSE IF fallback # <<>>
             THEN [segment     |-> fallback,
                   status      |-> "fallback",
                   matched_key |-> IF fallback[1].keys # <<>>
                                   THEN fallback[1].keys[1]
                                   ELSE None,
                   used        |-> used \cup {fallback[1].index}]
             ELSE [segment     |-> <<>>,
                   status      |-> "missing",
                   matched_key |-> None,
                   used        |-> used]

(***************************************************************************)
(* JSON values: every node is [type, str, items]; a dictionary is the list *)
(* of its pairs in insertion order, the key in str, the value in items.    *)
(***************************************************************************)
JNone == [type |-> "none", str |-> <<>>, items |-> <<>>]

JStr(s) == [type |-> "str", str |-> s, items |-> <<>>]

JList(xs) == [type |-> "list", str |-> <<>>, items |-> xs]

JPair(k, v) == [type |-> "pair", str |-> k, items |-> <<v>>]

JDict(pairs) == [type |-> "dict", str |-> <<>>, items |-> pairs]

\* A JSON number: str(item) is its decimal numeral
JInt(n) == [type |-> "int", str |-> <<>>, items |-> <<n>>]

(***************************************************************************)
(* Text Flattener.                                                         *)
(***************************************************************************)
\* One terminal string of flatten_to_strings: cleaned on demand, stripped,
\* kept when not empty.
FlattenLeaf(text, clean) ==
    LET stripped == Strip(IF clean THEN CleanText(text) ELSE text)
    IN  IF stripped # <<>> THEN <<stripped>> ELSE <<>>

\* flatten_to_strings of TurCommentaryMerger
RECURSIVE FlattenToStrings(_, _)
RECURSIVE FlattenItems(_, _)
FlattenToStrings(item, clean) ==
    CASE item.type = "none" -> <<>>
      [] item.type = "str"  -> FlattenLeaf(item.str, clean)
      [] item.type = "list" -> FlattenItems(item.items, clean)
      [] item.type = "dict" -> FlattenItems(item.items, clean)
      [] item.type = "pair" -> FlattenToStrings(item.items[1], clean)
      [] item.type = "int"  -> FlattenLeaf(NatToStr(item.items[1]), clean)

FlattenItems(items, clean) ==
    IF items = <<>>
    THEN <<>>
    ELSE FlattenToStrings(Head(items), clean)
         \o FlattenItems(Tail(items), clean)

(***************************************************************************)
(* Shape Normalizer.                                                       *)
(***************************************************************************)
\* _from_sequence: enumerate(items, start=1)
FromSequence(items) ==
    [idx \in 1..Len(items) |-> [num |-> idx, content |-> items[idx]]]

\* section_data[key] of a dictionary: a list of at most one value
DictGet(pairs, key) ==
    LET hits == {j \in 1..Len(pairs) : pairs[j].str = key}
    IN  IF hits = {} THEN <<>> ELSE <<pairs[Min(hits)].items[1]>>

\* HasEmptyKeyList that gives way to any other key of the dictionary.
HasOnlyEmptyKeyList(pairs) ==
    /\ Len(pairs) = 1
    /\ pairs[1].str = <<>>
    /\ pairs[1].items[1].type = "list"

\* "" in section_data and isinstance(section_data[""], list)
HasEmptyKeyList(pairs) ==
    /\ DictGet(pairs, <<>>) # <<>>
    /\ DictGet(pairs, <<>>)[1].type = "list"

\* re.search(r"\d+", str(key)) and int(match.group()): a list of at most
\* one number, the first run of digits of the key
KeyNumber(key) ==
    IF FindNumbers(key) = <<>>
    THEN <<>>
    ELSE <<StrToNat(FindNumbers(key)[1])>>

\* NumberedPairs that files a key without a number under 0.
RECURSIVE NumberedPairsKeepingAll(_)
NumberedPairsKeepingAll(pairs) ==
    IF pairs = <<>>
    THEN <<>>
    ELSE LET value == Head(pairs).items[1]
             num   == KeyNumber(Head(pairs).str)
         IN  IF value.type = "none"
             THEN NumberedPairsKeepingAll(Tail(pairs))
             ELSE <<[num |-> IF num = <<>> THEN 0 ELSE num[1], content |-> value]>>
                  \o NumberedPairsKeepingAll(Tail(pairs))

\* The loop over section_data.items(): the pairs with a value and a number
\* in the key, in insertion order
RECURSIVE NumberedPairs(_)
NumberedPairs(pairs) ==
    IF pairs = <<>>
    THEN <<>>
    ELSE LET value == Head(pairs).items[1]
             num   == KeyNumber(Head(pairs).str)
         IN  IF value.type = "none" \/ num = <<>>
             THEN NumberedPairs(Tail(pairs))
             ELSE <<[num |-> num[1], content |-> value]>>
                  \o NumberedPairs(Tail(pairs))

\* list.sort(key=lambda x: x[0]): stable, ascending by number
RECURSIVE InsertByNum(_, _)
InsertByNum(sorted, item) ==
    IF sorted = <<>>
    THEN <<item>>
    ELSE IF sorted[Len(sorted)].num <= item.num
         THEN Append(sorted, item)
         ELSE Append(InsertByNum(SubSeq(sorted, 1, Len(sorted) - 1), item),
                     sorted[Len(sorted)])

\* SortByNum that leaves the pairs in insertion order.
SortByNumUnsorted(items) == items

RECURSIVE SortByNum(_)
SortByNum(items) ==
    IF items = <<>>
    THEN <<>>
    ELSE InsertByNum(SortByNum(SubSeq(items, 1, Len(items) - 1)),
                     items[Len(items)])

\* extract_simanim
ExtractSimanim(data) ==
    CASE data.type = "none" -> <<>>
      [] data.type = "list" -> FromSequence(data.items)
      [] data.type = "dict" ->
            IF HasEmptyKeyList(data.items)
            THEN FromSequence(DictGet(data.items, <<>>)[1].items)
            ELSE SortByNum(NumberedPairs(data.items))
      [] OTHER -> <<>>

(***************************************************************************)
(* Alignment Engine: the entries of one unit (siman).                      *)
(***************************************************************************)
VARIABLE commentary_name   \* the key of COMMENTARIES being merged

Bach == <<"B", "a", "c", "h">>

BeitYosef == <<"B", "e", "i", "t", "_", "Y", "o", "s", "e", "f">>

\* The keys of COMMENTARIES the model runs.
CommentaryKeys == {Bach, BeitYosef}

\* COMMENTARIES[name]["display_name"]
DisplayName(name) ==
    IF name = BeitYosef
    THEN <<"B", "e", "i", "t", " ", "Y", "o", "s", "e", "f">>
    ELSE name

\* commentary_display of merge_section_with_commentary
CommentaryDisplay == DisplayName(commentary_name)

DataOrder == <<"d", "a", "t", "a", "-", "o", "r", "d", "e", "r">>

DataCommentator ==
    <<"d", "a", "t", "a", "-", "c", "o", "m", "m", "e", "n", "t", "a", "t",
      "o", "r">>

\* _build_text_payload: content, segment index and, when it differs from
\* the content, the stripped raw text
BuildTextPayload(content, raw, idx) ==
    [content       |-> content,
     segment_index |-> idx,
     raw           |-> IF Strip(raw) # <<>> /\ Strip(raw) # content
                       THEN Strip(raw)
                       ELSE None]

\* _build_commentary_payload; segment is a list of at most one segment,
\* comment_index 0 and raw None stand for the absent keys
BuildCommentaryPayload(segment, status, order, commentator, clean, matched_key) ==
    [commentator    |-> commentator,
     order          |-> order,
     status         |-> status,
     resolved_order |-> IF Truthy(matched_key) THEN matched_key ELSE None,
     comment_index  |-> IF segment # <<>> THEN segment[1].index ELSE 0,
     content        |-> IF segment # <<>>
                        THEN IF clean
                             THEN segment[1].clean
                             ELSE Strip(segment[1].raw)
                        ELSE None,
     raw            |-> IF /\ segment # <<>>
                           /\ segment[1].raw # <<>>
                           /\ (~clean \/ segment[1].clean # segment[1].raw)
                        THEN segment[1].raw
                        ELSE None]

\* An entry of the unit: a dict with an optional "text" and an optional
\* "commentary" key, inserted in that order; each is a list of at most one
\* payload.
Entry(text, commentary) == [text |-> text, commentary |-> commentary]

\* ProcessBuffer that cuts the buffer at its first blank.
ProcessBufferFirstWord(buffer, clean) ==
    LET text == IF clean THEN CleanText(buffer) ELSE Strip(buffer)
    IN  SubSeq(text, 1, IndexFrom(text, " ", 1) - 1)

\* The text span of _consume_main_segment: cleaned or stripped
ProcessBuffer(buffer, clean) ==
    IF clean THEN CleanText(buffer) ELSE Strip(buffer)

\* TextOfBuffer that keeps a buffer of markup or blanks as an empty text.
TextOfBufferKeepEmpty(buffer, clean, idx) ==
    IF buffer # <<>>
    THEN <<BuildTextPayload(ProcessBuffer(buffer, clean), buffer, idx + 1)>>
    ELSE <<>>

\* The text entry of a buffer: none when the buffer or its processed form
\* is empty.
TextOfBuffer(buffer, clean, idx) ==
    IF buffer # <<>> /\ ProcessBuffer(buffer, clean) # <<>>
    THEN <<BuildTextPayload(ProcessBuffer(buffer, clean), buffer, idx + 1)>>
    ELSE <<>>

\* The commentary payload of one placeholder match, given the resolution r
\* of its order.
CommentaryOfMatch(attrs, r, clean) ==
    LET commentator == IF Truthy(AttrGet(attrs, DataCommentator))
                       THEN AttrGet(attrs, DataCommentator)
                       ELSE CommentaryDisplay
    IN  BuildCommentaryPayload(r.segment, r.status,
                               AttrGet(attrs, DataOrder), commentator,
                               clean, r.matched_key)

\* MatchEntry that emits a commentary only when a segment was found.
MatchEntryIfFound(buffer, attrs, r, clean, idx) ==
    Entry(TextOfBuffer(buffer, clean, idx),
          IF r.segment # <<>>
          THEN <<CommentaryOfMatch(attrs, r, clean)>>
          ELSE <<>>)

\* The entry one iteration of the finditer loop appends: the text before
\* the placeholder, if any, then the commentary.
MatchEntry(buffer, attrs, r, clean, idx) ==
    Entry(TextOfBuffer(buffer, clean, idx), <<CommentaryOfMatch(attrs, r, clean)>>)

\* UnusedSegments that returns every segment, consumed or not.
UnusedSegmentsAll(segs, used) == segs

\* UnusedSegments that loses the first unused segment.
UnusedSegmentsButFirst(segs, used) ==
    LET unused == SelectSeq(segs, LAMBDA seg : seg.index \notin used)
    IN  IF unused = <<>> THEN <<>> ELSE Tail(unused)

\* The segments whose index is not in used_indices, in order
UnusedSegments(segs, used) ==
    SelectSeq(segs, LAMBDA seg : seg.index \notin used)

\* UnplacedEntry that reports the segment as a fallback.
UnplacedEntryAsFallback(segment, clean) ==
    Entry(<<>>, <<BuildCommentaryPayload(<<segment>>, "fallback", segment.keys[1],
                                         CommentaryDisplay, clean,
                                         segment.keys[1])>>)

\* The entry of a segment no placeholder consumed
UnplacedEntry(segment, clean) ==
    LET first_key == IF segment.keys # <<>> THEN segment.keys[1] ELSE None
    IN  Entry(<<>>, <<BuildCommentaryPayload(<<segment>>, "unplaced", first_key,
                                             CommentaryDisplay, clean,
                                             first_key)>>)

\* The placeholders _consume_main_segment finds in a segment from position
\* from on, each with the commentator and the order it reads off the tag
RECURSIVE FindPlaceholders(_, _)
FindPlaceholders(s, from) ==
    LET m     == NextPlaceholder(s, from)
        attrs == ParseTagAttributes(m.group1)
    IN  IF m.start = 0
        THEN <<>>
        ELSE <<[commentator |-> IF Truthy(AttrGet(attrs, DataCommentator))
                                THEN AttrGet(attrs, DataCommentator)
                                ELSE CommentaryDisplay,
                order       |-> AttrGet(attrs, DataOrder)]>>
             \o FindPlaceholders(s, m.end + 1)

\* " ".join(strings)
RECURSIVE JoinBySpace(_)
JoinBySpace(strings) ==
    IF strings = <<>>
    THEN <<>>
    ELSE IF Len(strings) = 1
         THEN Head(strings)
         ELSE Head(strings) \o <<" ">> \o JoinBySpace(Tail(strings))

(***************************************************************************)
(* TurPlaceholderMerger: the entries of one unit.                          *)
(***************************************************************************)
\* flatten_to_strings of TurPlaceholderMerger: a dictionary with the key
\* 'paragraphs' is read under that key only
RECURSIVE PlaceholderFlatten(_, _)
RECURSIVE PlaceholderFlattenItems(_, _)
PlaceholderFlatten(item, clean) ==
    CASE item.type = "none" -> <<>>
      [] item.type = "str"  ->
            LET text == Strip(IF clean
                              THEN PlaceholderCleanText(item.str, TRUE)
                              ELSE item.str)
            IN  IF text # <<>> THEN <<text>> ELSE <<>>
      [] item.type = "list" -> PlaceholderFlattenItems(item.items, clean)
      [] item.type = "dict" ->
            LET paragraphs ==
                    DictGet(item.items,
                            <<"p", "a", "r", "a", "g", "r", "a", "p", "h", "s">>)
            IN  IF paragraphs # <<>>
                THEN PlaceholderFlatten(paragraphs[1], clean)
                ELSE PlaceholderFlattenItems(item.items, clean)
      [] item.type = "pair" -> PlaceholderFlatten(item.items[1], clean)
      [] item.type = "int"  ->
            LET text == Strip(IF clean
                              THEN PlaceholderCleanText(NatToStr(item.items[1]), TRUE)
                              ELSE NatToStr(item.items[1]))
            IN  IF text # <<>> THEN <<text>> ELSE <<>>

PlaceholderFlattenItems(items, clean) ==
    IF items = <<>>
    THEN <<>>
    ELSE PlaceholderFlatten(Head(items), clean)
         \o PlaceholderFlattenItems(Tail(items), clean)

\* The text segment of split_text_by_placeholders for the text between two
\* placeholders, a list of at most one segment.
SplitText(between) ==
    IF Strip(between) # <<>>
    THEN <<[type        |-> "text",
            content     |-> PlaceholderCleanText(Strip(between), FALSE),
            commentator |-> <<>>,
            order       |-> <<>>]>>
    ELSE <<>>

\* split_text_by_placeholders from position p on, last_end being the
\* position after the last placeholder
RECURSIVE SplitFrom(_, _, _, _)
SplitFrom(text, p, last_end, name) ==
    IF p > Len(text)
    THEN SplitText(SubSeq(text, last_end, Len(text)))
    ELSE LET m == FixedPlaceholderAt(text, p)
         IN  IF m.end = 0
             THEN SplitFrom(text, p + 1, last_end, name)
             ELSE SplitText(SubSeq(text, last_end, p - 1))
                  \o (IF \/ m.commentator = name
                         \/ (name \in CommentaryKeys
                               /\ m.commentator = DisplayName(name))
                      THEN <<[type        |-> "placeholder",
                              content     |-> <<>>,
                              commentator |-> m.commentator,
                              order       |-> m.order]>>
                      ELSE <<>>)
                  \o SplitFrom(text, m.end + 1, m.end + 1, name)

SplitTextByPlaceholders(text, name) == SplitFrom(text, 1, 1, name)

\* order_to_comment.get(order, ""): the comment filed under
\* f"{siman_num}.{idx + 1}"
OrderToComment(commentary_segments, siman, order) ==
    LET hits == {i \in 1..Len(commentary_segments) :
                    NatToStr(siman) \o <<".">> \o NatToStr(i) = order}
    IN  IF hits = {} THEN <<>> ELSE commentary_segments[Min(hits)]

\* The loop over the segments of a unit with placeholders: a text entry per
\* text segment, a commentary entry per placeholder that gets a comment.
RECURSIVE PlaceholderLoop(_, _, _, _, _)
PlaceholderLoop(segs, commentary_segments, siman, segment_index, comment_index) ==
    IF segs = <<>>
    THEN <<>>
    ELSE IF Head(segs).type = "text"
         THEN <<Entry(<<[content       |-> Head(segs).content,
                         segment_index |-> segment_index + 1]>>, <<>>)>>
              \o PlaceholderLoop(Tail(segs), commentary_segments, siman,
                                 segment_index + 1, comment_index)
         ELSE LET filed == OrderToComment(commentary_segments, siman,
                                          Head(segs).order)
                  comment_text ==
                      IF filed = <<>> /\ comment_index < Len(commentary_segments)
                      THEN commentary_segments[comment_index + 1]
                      ELSE filed
              IN  IF comment_text # <<>>
                  THEN <<Entry(<<>>, <<[content       |-> comment_text,
                                        order         |-> Head(segs).order,
                                        comment_index |-> comment_index + 1]>>)>>
                       \o PlaceholderLoop(Tail(segs), commentary_segments, siman,
                                          segment_index, comment_index + 1)
                  ELSE PlaceholderLoop(Tail(segs), commentary_segments, siman,
                                       segment_index, comment_index)

\* The body of the unit loop of TurPlaceholderMerger's
\* merge_section_with_commentary: the entries of one unit
PlaceholderEntries(main, comm, siman, name, clean) ==
    LET commentary_segments == PlaceholderFlatten(comm, clean)
        combined_text == JoinBySpace(PlaceholderFlatten(main, FALSE))
        relevant == SelectSeq(ExtractPlaceholders(combined_text),
                              LAMBDA ph : \/ ph.commentator = DisplayName(name)
                                          \/ ph.commentator = name)
        clean_combined == PlaceholderCleanText(combined_text, TRUE)
    IN  IF relevant # <<>>
        THEN PlaceholderLoop(
                 SplitTextByPlaceholders(combined_text, DisplayName(name)),
                 commentary_segments, siman, 0, 0)
        ELSE (IF clean_combined # <<>>
              THEN <<Entry(<<[content |-> clean_combined, segment_index |-> 0]>>,
                           <<>>)>>
              ELSE <<>>)
             \o [idx \in 1..Len(commentary_segments) |->
                    Entry(<<>>, <<[content       |-> commentary_segments[idx],
                                   order         |-> None,
                                   comment_index |-> idx]>>)]

(***************************************************************************)
(* Files and the documents read from them.                                 *)
(***************************************************************************)
\* A file of the corpus: absent, a Git LFS pointer, text that is no JSON, or
\* a JSON document.
File(kind, data) == [kind |-> kind, data |-> data]

\* load_json: None unless the file holds a JSON document
LoadJson(file) == IF file.kind = "json" THEN file.data ELSE JNone

\* The truth value Python gives a JSON value.
JTruthy(v) ==
    CASE v.type = "none" -> FALSE
      [] v.type = "str"  -> v.str # <<>>
      [] OTHER           -> v.items # <<>>

TextKey == <<"t", "e", "x", "t">>

\* data.get('text', {}).get(section): raises AttributeError when data or
\* the value under 'text' is no dictionary, gives None when a key is absent
SectionOf(data, section_name) ==
    IF data.type # "dict"
    THEN [raises |-> TRUE, value |-> JNone]
    ELSE LET text == IF DictGet(data.items, TextKey) = <<>>
                     THEN JDict(<<>>)
                     ELSE DictGet(data.items, TextKey)[1]
         IN  IF text.type # "dict"
             THEN [raises |-> TRUE, value |-> JNone]
             ELSE [raises |-> FALSE,
                   value  |-> IF DictGet(text.items, section_name) = <<>>
                              THEN JNone
                              ELSE DictGet(text.items, section_name)[1]]

\* commentary_dict.get(siman_num, []): the content of the last unit of that
\* number
CommentaryDictGet(commentary_simanim, siman) ==
    LET hits == {i \in 1..Len(commentary_simanim) :
                    commentary_simanim[i].num = siman}
    IN  IF hits = {}
        THEN JList(<<>>)
        ELSE commentary_simanim[CHOOSE i \in hits : \A j \in hits : j <= i].content

VARIABLES
    pc,             \* the position in the operation under way
    siman_num,      \* the unit's ordinal
    main_content,   \* the unit's primary content, a JSON value
    comm_content,   \* the unit's commentary content, a JSON value
    clean_text,     \* the clean_text flag
    main_segments,  \* the flattened primary text
    segments,       \* the indexed commentary segments
    index_map,      \* the lookup table of the unit
    used_indices,   \* the consumed-set of the unit
    entries,        \* the entries built so far
    text_index,     \* the number of text entries so far
    seg_pos,        \* the primary segment being consumed
    cursor,         \* the next position to scan in that segment
    section_data,   \* the section value given to extract_simanim
    simanim,        \* the units extract_simanim returned
    cleaner,        \* the class whose clean_text is called
    text_in,        \* the string given to clean_text
    text_out,       \* the string clean_text returned
    placeholders,   \* the markers recognised in the string
    merger,         \* the class whose merge_all runs
    sections_to_process,     \* the sections merge_all goes through
    commentaries_to_process, \* the commentaries merge_all goes through
    main_files,     \* the primary file of each section
    comm_files,     \* the commentary file of each (section, commentary)
    section_pos,    \* the place of the outer loop of merge_all
    commentary_pos, \* the place of the inner loop of merge_all
    section,        \* the section being merged
    main_simanim,   \* the units of the primary section
    commentary_simanim,      \* the units of the commentary section
    unit_pos,       \* the place of the unit loop
    merged_simanim, \* the unit records built so far
    outputs,        \* the documents written, in order
    log,            \* the outcome merge_all logged for each pair, in order
    success_count,  \* TurPlaceholderMerger.merge_all's counters
    fail_count,
    tally           \* the final tally logged, a list of at most one

\* What merge_all and merge_section_with_commentary work on.
batch_vars == <<commentary_name, merger, sections_to_process,
                commentaries_to_process, main_files, comm_files, section_pos,
                commentary_pos, section, main_simanim, commentary_simanim,
                unit_pos, merged_simanim, outputs, log, success_count,
                fail_count, tally>>

vars == <<pc, siman_num, main_content, comm_content, clean_text, main_segments,
          segments, index_map, used_indices, entries, text_index, seg_pos,
          cursor, section_data, simanim, cleaner, text_in, text_out,
          placeholders, batch_vars>>

\* What clean_text works on.
clean_vars == <<cleaner, text_in, text_out, placeholders>>

\* What the building of a unit's entries never writes.
inputs == <<siman_num, main_content, comm_content, clean_text, section_data,
            simanim, clean_vars, batch_vars>>

\* What extract_simanim never writes.
unit_vars == <<siman_num, main_content, comm_content, clean_text, main_segments,
               segments, index_map, used_indices, entries, text_index, seg_pos,
               cursor, clean_vars, batch_vars>>

\* Prepare that keeps the consumed-set of the unit before.
PrepareKeepingUsed ==
    /\ pc = "build"
    /\ main_segments' = FlattenToStrings(main_content, FALSE)
    /\ segments' = PrepareSegments(siman_num, FlattenToStrings(comm_content, FALSE))
    /\ index_map' = PrepareIndexMap(segments')
    /\ used_indices' = used_indices
    /\ entries' = <<>>
    /\ text_index' = 0
    /\ seg_pos' = 1
    /\ cursor' = 1
    /\ pc' = "scan"
    /\ UNCHANGED inputs

\* _build_embedded_entries, up to the loop: flatten both contents, index the
\* commentary, start with nothing consumed
Prepare ==
    /\ pc = "build"
    /\ main_segments' = FlattenToStrings(main_content, FALSE)
    /\ segments' = PrepareSegments(siman_num, FlattenToStrings(comm_content, FALSE))
    /\ index_map' = PrepareIndexMap(segments')
    /\ used_indices' = {}
    /\ entries' = <<>>
    /\ text_index' = 0
    /\ seg_pos' = 1
    /\ cursor' = 1
    /\ pc' = "scan"
    /\ UNCHANGED inputs

\* _consume_main_segment, one iteration of the finditer loop: flush the text
\* before the placeholder, resolve the placeholder, append the entry
ConsumeMarker ==
    /\ pc = "scan"
    /\ seg_pos <= Len(main_segments)
    /\ \E m \in {NextPlaceholder(main_segments[seg_pos], cursor)} :
          /\ m.start > 0
          /\ \E attrs \in {ParseTagAttributes(m.group1)} :
             \E r \in {ResolveCommentarySegment(AttrGet(attrs, DataOrder),
                           siman_num, segments, index_map, used_indices)} :
             \E entry \in {MatchEntry(
                               SubSeq(main_segments[seg_pos], cursor, m.start - 1),
                               attrs, r, clean_text, text_index)} :
                /\ entries' = Append(entries, entry)
                /\ text_index' = text_index + Len(entry.text)
                /\ used_indices' = r.used
                /\ cursor' = m.end + 1
    /\ UNCHANGED <<pc, inputs, main_segments, segments, index_map, seg_pos>>

\* _consume_main_segment after the loop: flush the rest of the segment as a
\* text entry and go on to the next segment
FinishSegment ==
    /\ pc = "scan"
    /\ seg_pos <= Len(main_segments)
    /\ NextPlaceholder(main_segments[seg_pos], cursor).start = 0
    /\ \E tail \in {TextOfBuffer(
                        SubSeq(main_segments[seg_pos], cursor,
                               Len(main_segments[seg_pos])),
                        clean_text, text_index)} :
          /\ entries' = IF tail # <<>>
                        THEN Append(entries, Entry(tail, <<>>))
                        ELSE entries
          /\ text_index' = text_index + Len(tail)
    /\ seg_pos' = seg_pos + 1
    /\ cursor' = 1
    /\ UNCHANGED <<pc, inputs, main_segments, segments, index_map, used_indices>>

\* _build_embedded_entries after the loop: append the segments never
\* consumed, as unplaced
AppendUnplaced ==
    /\ pc = "scan"
    /\ seg_pos > Len(main_segments)
    /\ \E unused \in {UnusedSegments(segments, used_indices)} :
          entries' = entries \o [k \in 1..Len(unused) |->
                                    UnplacedEntry(unused[k], clean_text)]
    /\ pc' = "done"
    /\ UNCHANGED <<inputs, main_segments, segments, index_map, used_indices,
                   text_index, seg_pos, cursor>>

(***************************************************************************)
(* The inputs of the model.                                                *)
(***************************************************************************)
\* The unit ordinals tried.
SimanNums == {1, 2}

MaxFragments == 3

MaxPieces == 3

\* <i data-order="..."></i>
Marker(order) ==
    <<"<", "i", " ">> \o DataOrder \o <<"=", "\"">> \o order
        \o <<"\"", ">", "<", "/", "i", ">">>

\* <i data-commentator="Bach" data-order="..."></i>
BachMarker(order) ==
    <<"<", "i", " ">> \o DataCommentator \o <<"=", "\"">> \o <<"B", "a", "c", "h">>
        \o <<"\"", " ">> \o DataOrder \o <<"=", "\"">> \o order
        \o <<"\"", ">", "<", "/", "i", ">">>

\* The pieces a unit's primary text is put together from; "|" ends a string
\* of the content list.
Piece(name) ==
    CASE name = "m1.1" -> Marker(<<"1", ".", "1">>)
      [] name = "m1.2" -> Marker(<<"1", ".", "2">>)
      [] name = "m2.1" -> Marker(<<"2", ".", "1">>)
      [] name = "m2"   -> Marker(<<"2">>)
      [] name = "m7"   -> Marker(<<"7">>)
      [] name = "m1.2-3" -> Marker(<<"1", ".", "2", "-", "3">>)
      [] name = "i"    -> <<"<", "i", ">", "<", "/", "i", ">">>
      [] name = "b"    -> <<"<", "b", ">">>
      [] name = "a"    -> <<"a">>
      [] name = "z"    -> <<"z">>
      [] name = "sp"   -> <<" ">>
      [] name = "lt"   -> <<"<">>
      [] name = "gt"   -> <<">">>
      [] name = "br"   -> <<"{", "x", "}">>
      [] name = "soh"  -> <<"SOH">>
      [] name = "mB"   -> BachMarker(<<"1", ".", "1">>)
      [] name = "mB1.2" -> BachMarker(<<"1", ".", "2">>)
      [] name = "mB7"  -> BachMarker(<<"7">>)

MatchPieces == {"m1.1", "m1.2", "m2", "m7", "a", "|"}

TextPieces == {"m1.1", "i", "b", "a", "sp", "lt", "gt", "|"}

\* The list of strings a sequence of piece names spells.
RECURSIVE Spell(_, _)
Spell(names, current) ==
    IF names = <<>>
    THEN <<JStr(current)>>
    ELSE IF Head(names) = "|"
         THEN <<JStr(current)>> \o Spell(Tail(names), <<>>)
         ELSE Spell(Tail(names), current \o Piece(Head(names)))

PieceSeqs(pieces) == UNION {[1..n -> pieces] : n \in 0..MaxPieces}

FragmentText(i) == <<"F">> \o NatToStr(i)

Fragments(n) == JList([i \in 1..n |-> JStr(FragmentText(i))])

\* No unit is being built.
UnitIdle ==
    /\ main_segments = <<>>
    /\ segments = <<>>
    /\ index_map = <<>>
    /\ used_indices = {}
    /\ entries = <<>>
    /\ text_index = 0
    /\ seg_pos = 1
    /\ cursor = 1

OrachChaim == <<"O", "r", "a", "c", "h", " ", "C", "h", "a", "i", "m">>

YorehDeah == <<"Y", "o", "r", "e", "h", " ", "D", "e", "a", "h">>

\* No batch is running: one unit of Bach is merged on its own.
BatchIdle ==
    /\ commentary_name = Bach
    /\ merger = "TurCommentaryMerger"
    /\ sections_to_process = <<>>
    /\ commentaries_to_process = <<>>
    /\ main_files = <<>>
    /\ comm_files = <<>>
    /\ section_pos = 1
    /\ commentary_pos = 1
    /\ section = OrachChaim
    /\ main_simanim = <<>>
    /\ commentary_simanim = <<>>
    /\ unit_pos = 1
    /\ merged_simanim = <<>>
    /\ outputs = <<>>
    /\ log = <<>>
    /\ success_count = 0
    /\ fail_count = 0
    /\ tally = <<>>

\* No string is being cleaned.
CleanIdle ==
    /\ cleaner = "TurCommentaryMerger"
    /\ text_in = <<>>
    /\ text_out = <<>>
    /\ placeholders = <<>>

InitBuild(pieces, simans, flags) ==
    /\ pc = "build"
    /\ siman_num \in simans
    /\ \E names \in PieceSeqs(pieces) : main_content = JList(Spell(names, <<>>))
    /\ \E n \in 0..MaxFragments : comm_content = Fragments(n)
    /\ clean_text \in flags
    /\ UnitIdle
    /\ CleanIdle
    /\ BatchIdle
    /\ section_data = JNone
    /\ simanim = <<>>

RuleOne == <<"R", "u", "l", "e", " ", "o", "n", "e", ".">>

RuleTwo == <<"R", "u", "l", "e", " ", "t", "w", "o", ".">>

CommentA == <<"C", "o", "m", "m", "e", "n", "t", " ", "A">>

CommentB == <<"C", "o", "m", "m", "e", "n", "t", " ", "B">>

\* The unit of the worked example: two markers of Bach, each before a rule.
ExampleMain ==
    JList(<<JStr(BachMarker(<<"1", ".", "1">>) \o <<" ">> \o RuleOne \o <<" ">>
                 \o BachMarker(<<"1", ".", "2">>) \o <<" ">> \o RuleTwo)>>)

ExampleComm == JList(<<JStr(CommentA), JStr(CommentB)>>)

InitExample ==
    /\ pc = "build"
    /\ siman_num = 1
    /\ main_content = ExampleMain
    /\ comm_content = ExampleComm
    /\ clean_text = TRUE
    /\ UnitIdle
    /\ CleanIdle
    /\ BatchIdle
    /\ section_data = JNone
    /\ simanim = <<>>

\* Units whose markers carry every kind of order token.
Init == InitBuild(MatchPieces, SimanNums, {TRUE}) \/ InitExample

\* Units whose markers carry a range of fragments as their order token.
RangePieces == {"m1.2-3", "m1.1", "a"}

InitRange == InitBuild(RangePieces, SimanNums, {TRUE})

\* Units whose text carries markup, whitespace and stray brackets.
InitText == InitBuild(TextPieces, {1}, BOOLEAN) \/ InitExample

MaxKeys == 3

\* The keys a section dictionary is given: the empty string, numbers, a
\* number with a suffix, a word before a number, a word without a number.
SectionKeys ==
    {<<>>, <<"1">>, <<"2">>, <<"3">>, <<"1", "a">>,
     <<"S", "i", "m", "a", "n", " ", "2">>,
     <<"I", "n", "t", "r", "o">>}

\* The unit content filed under a key, or at a position of a list.
ContentOf(label) == JList(<<JStr(<<"c">> \o label)>>)

\* The sequences of distinct keys, of MaxKeys keys at most
KeySeqs ==
    UNION {{ks \in [1..n -> SectionKeys] :
               \A i, j \in 1..n : i # j => ks[i] # ks[j]} : n \in 0..MaxKeys}

\* The value under key k: a unit's content, or null; under the empty string
\* a list of two units, or a string.
ValueOf(k, present) ==
    IF k = <<>>
    THEN IF present
         THEN JList(<<ContentOf(<<"1">>), ContentOf(<<"2">>)>>)
         ELSE JStr(<<"x">>)
    ELSE IF present THEN ContentOf(k) ELSE JNone

\* {"Introduction": ["x"], "1": ["a"], "3": ["c"], "2": ["b"]}
ExampleDict ==
    JDict(<<JPair(<<"I", "n", "t", "r", "o", "d", "u", "c", "t", "i", "o", "n">>,
                  JList(<<JStr(<<"x">>)>>)),
            JPair(<<"1">>, JList(<<JStr(<<"a">>)>>)),
            JPair(<<"3">>, JList(<<JStr(<<"c">>)>>)),
            JPair(<<"2">>, JList(<<JStr(<<"b">>)>>))>>)

InitNorm ==
    /\ pc = "normalise"
    /\ \/ section_data \in {JNone, JStr(<<"x">>), ExampleDict}
       \/ \E n \in 0..MaxKeys :
             section_data = JList([j \in 1..n |-> ContentOf(NatToStr(j))])
       \/ \E ks \in KeySeqs : \E present \in [1..Len(ks) -> BOOLEAN] :
             section_data =
                 JDict([j \in 1..Len(ks) |-> JPair(ks[j], ValueOf(ks[j], present[j]))])
    /\ simanim = <<>>
    /\ siman_num = 1
    /\ main_content = JNone
    /\ comm_content = JNone
    /\ clean_text = TRUE
    /\ UnitIdle
    /\ CleanIdle
    /\ BatchIdle

\* extract_simanim
Normalise ==
    /\ pc = "normalise"
    /\ simanim' = ExtractSimanim(section_data)
    /\ pc' = "normalised"
    /\ UNCHANGED <<section_data, unit_vars>>

Next == Prepare \/ ConsumeMarker \/ FinishSegment \/ AppendUnplaced

Spec == Init /\ [][Next]_vars

SpecText == InitText /\ [][Next]_vars

SpecRange == InitRange /\ [][Next]_vars

MaxKeyFragments == 12

\* The unit ordinals whose keys are generated: of one, two and three digits.
KeySimans == {1, 2, 10, 12, 100}

\* Units of up to MaxKeyFragments fragments, their primary text empty.
InitKeys ==
    /\ pc = "build"
    /\ siman_num \in KeySimans
    /\ main_content = JList(<<>>)
    /\ \E n \in 0..MaxKeyFragments : comm_content = Fragments(n)
    /\ clean_text = TRUE
    /\ UnitIdle
    /\ CleanIdle
    /\ BatchIdle
    /\ section_data = JNone
    /\ simanim = <<>>

NextKeys == Prepare

SpecKeys == InitKeys /\ [][NextKeys]_vars

NextNorm == Normalise

MaxCleanPieces == 5

CleanPieces == {"a", "sp", "br", "lt", "gt", "mB"}

\* The strings given to clean_text.
CleanInputs ==
    UNION {{Spell(names, <<>>)[1].str : names \in [1..n -> CleanPieces]}
              : n \in 0..MaxCleanPieces}

InitClean ==
    /\ pc = "clean"
    /\ cleaner \in {"TurCommentaryMerger", "TurPlaceholderMerger", "TurMerger"}
    /\ text_in \in CleanInputs
    /\ text_out = <<>>
    /\ placeholders = <<>>
    /\ siman_num = 1
    /\ main_content = JNone
    /\ comm_content = JNone
    /\ clean_text = TRUE
    /\ UnitIdle
    /\ BatchIdle
    /\ section_data = JNone
    /\ simanim = <<>>

\* clean_text
Clean ==
    /\ pc = "clean"
    /\ text_out' = CleanTextOf(cleaner, text_in)
    /\ pc' = "cleaned"
    /\ UNCHANGED <<cleaner, text_in, placeholders, siman_num, main_content, comm_content,
                   clean_text, main_segments, segments, index_map,
                   used_indices, entries, text_index, seg_pos, cursor,
                   section_data, simanim, batch_vars>>

NextClean == Clean

SpecClean == InitClean /\ [][NextClean]_vars

\* The attributes a marker is written with: the two the mergers read and
\* two they do not.
MarkerAttribute(name) ==
    CASE name = "commentator" -> CommentatorOpen \o <<"B", "a", "c", "h", "\"">>
      [] name = "order"       -> OrderOpen \o <<"1", ".", "1", "\"">>
      [] name = "class"       -> <<"c", "l", "a", "s", "s", "=", "\"", "r", "e", "f", "\"">>
      [] name = "id"          -> <<"i", "d", "=", "\"", "n", "7", "\"">>

MarkerAttributes == {"commentator", "order", "class", "id"}

\* The sequences of different attributes.
AttributeSeqs ==
    UNION {{as \in [1..n -> MarkerAttributes] :
               \A i, j \in 1..n : i # j => as[i] # as[j]}
              : n \in 0..Cardinality(MarkerAttributes)}

\* <i a1 a2 ...></i>
RECURSIVE SpellAttributes(_)
SpellAttributes(names) ==
    IF names = <<>>
    THEN <<>>
    ELSE <<" ">> \o MarkerAttribute(Head(names)) \o SpellAttributes(Tail(names))

MarkerWith(names) ==
    <<"<", "i">> \o SpellAttributes(names) \o <<">", "<", "/", "i", ">">>

InitMarker ==
    /\ pc = "recognise"
    /\ cleaner \in {"TurCommentaryMerger", "TurPlaceholderMerger"}
    /\ \E names \in AttributeSeqs : \E before \in {<<>>, <<"a", " ">>} :
          text_in = before \o MarkerWith(names) \o <<" ", "z">>
    /\ text_out = <<>>
    /\ placeholders = <<>>
    /\ siman_num = 1
    /\ main_content = JNone
    /\ comm_content = JNone
    /\ clean_text = TRUE
    /\ UnitIdle
    /\ BatchIdle
    /\ section_data = JNone
    /\ simanim = <<>>

\* The markers of a string as the class named recognises them, each with
\* its commentator and its order token
Recognise ==
    /\ pc = "recognise"
    /\ placeholders' = IF cleaner = "TurPlaceholderMerger"
                       THEN ExtractPlaceholders(text_in)
                       ELSE FindPlaceholders(text_in, 1)
    /\ pc' = "recognised"
    /\ UNCHANGED <<cleaner, text_in, text_out, siman_num, main_content,
                   comm_content, clean_text, main_segments, segments,
                   index_map, used_indices, entries, text_index, seg_pos,
                   cursor, section_data, simanim, batch_vars>>

NextMarker == Recognise

SpecMarker == InitMarker /\ [][NextMarker]_vars

SpecNorm == InitNorm /\ [][NextNorm]_vars

(***************************************************************************)
(* merge_all: every section with every commentary.                         *)
(***************************************************************************)
\* What _build_embedded_entries works on.
unit_locals == <<main_segments, segments, index_map, used_indices, entries,
                 text_index, seg_pos, cursor>>

\* What the batch never touches.
batch_fixed == <<clean_text, section_data, simanim, clean_vars, merger,
                 sections_to_process, commentaries_to_process, main_files,
                 comm_files>>

\* PairEnds without the test of what the merge returned: a file is written
\* for a merge that returned None as well.
PairEndsWithoutCheck(section_name, commentary, outcome, documents) ==
    /\ log' = Append(log, [section    |-> section_name,
                           commentary |-> commentary,
                           outcome    |-> outcome])
    /\ outputs' = outputs \o (IF outcome = "failed"
                              THEN <<[section            |-> section_name,
                                      commentary         |-> commentary,
                                      commentary_display |-> None,
                                      total_simanim      |-> 0,
                                      simanim            |-> <<>>]>>
                              ELSE documents)
    /\ success_count' = IF merger = "TurPlaceholderMerger" /\ outcome = "saved"
                        THEN success_count + 1
                        ELSE success_count
    /\ fail_count' = IF merger = "TurPlaceholderMerger" /\ outcome # "saved"
                     THEN fail_count + 1
                     ELSE fail_count
    /\ IF commentary_pos < Len(commentaries_to_process)
       THEN /\ commentary_pos' = commentary_pos + 1
            /\ section_pos' = section_pos
       ELSE /\ commentary_pos' = 1
            /\ section_pos' = section_pos + 1
    /\ pc' = "pair"

\* The end of one iteration of merge_all's inner loop: the outcome is
\* logged, TurPlaceholderMerger counts it, a document is written when the
\* merge returned one, and the loops move on.
PairEnds(section_name, commentary, outcome, documents) ==
    /\ log' = Append(log, [section    |-> section_name,
                           commentary |-> commentary,
                           outcome    |-> outcome])
    /\ outputs' = outputs \o documents
    /\ success_count' = IF merger = "TurPlaceholderMerger" /\ outcome = "saved"
                        THEN success_count + 1
                        ELSE success_count
    /\ fail_count' = IF merger = "TurPlaceholderMerger" /\ outcome # "saved"
                     THEN fail_count + 1
                     ELSE fail_count
    /\ IF commentary_pos < Len(commentaries_to_process)
       THEN /\ commentary_pos' = commentary_pos + 1
            /\ section_pos' = section_pos
       ELSE /\ commentary_pos' = 1
            /\ section_pos' = section_pos + 1
    /\ pc' = "pair"

\* merge_section_with_commentary up to the unit loop, called by merge_all
\* for the next pair: load the primary text and the commentary.  A primary
\* file that does not load, or a section that is absent or empty, returns
\* None; a document that is no dictionary raises; a commentary that does
\* not load is merged as an empty one.
LoadPair ==
    /\ pc = "pair"
    /\ section_pos <= Len(sections_to_process)
    /\ section' = sections_to_process[section_pos]
    /\ commentary_name' = commentaries_to_process[commentary_pos]
    /\ \E main_data \in {LoadJson(main_files[section'])} :
       \E commentary_data \in {LoadJson(comm_files[<<section', commentary_name'>>])} :
          IF ~JTruthy(main_data)
          THEN /\ PairEnds(section', commentary_name', "failed", <<>>)
               /\ UNCHANGED <<main_simanim, commentary_simanim, unit_pos,
                              merged_simanim>>
          ELSE IF SectionOf(main_data, section').raises
          THEN /\ PairEnds(section', commentary_name', "error", <<>>)
               /\ UNCHANGED <<main_simanim, commentary_simanim, unit_pos,
                              merged_simanim>>
          ELSE IF ~JTruthy(SectionOf(main_data, section').value)
          THEN /\ PairEnds(section', commentary_name', "failed", <<>>)
               /\ UNCHANGED <<main_simanim, commentary_simanim, unit_pos,
                              merged_simanim>>
          ELSE IF JTruthy(commentary_data)
                    /\ SectionOf(commentary_data, section').raises
          THEN /\ PairEnds(section', commentary_name', "error", <<>>)
               /\ main_simanim' =
                      ExtractSimanim(SectionOf(main_data, section').value)
               /\ UNCHANGED <<commentary_simanim, unit_pos, merged_simanim>>
          ELSE /\ main_simanim' =
                      ExtractSimanim(SectionOf(main_data, section').value)
               /\ commentary_simanim' =
                      IF /\ JTruthy(commentary_data)
                         /\ JTruthy(SectionOf(commentary_data, section').value)
                      THEN ExtractSimanim(
                               SectionOf(commentary_data, section').value)
                      ELSE <<>>
               /\ merged_simanim' = <<>>
               /\ unit_pos' = 1
               /\ pc' = "unit"
               /\ UNCHANGED <<section_pos, commentary_pos, outputs, log,
                              success_count, fail_count>>
    /\ UNCHANGED <<siman_num, main_content, comm_content, unit_locals,
                   batch_fixed, tally>>

\* The head of the unit loop of TurCommentaryMerger: the next unit and its
\* commentary go to _build_embedded_entries
StartUnit ==
    /\ pc = "unit"
    /\ merger = "TurCommentaryMerger"
    /\ unit_pos <= Len(main_simanim)
    /\ siman_num' = main_simanim[unit_pos].num
    /\ main_content' = main_simanim[unit_pos].content
    /\ comm_content' = CommentaryDictGet(commentary_simanim, siman_num')
    /\ pc' = "build"
    /\ UNCHANGED <<unit_locals, batch_fixed, commentary_name, section_pos,
                   commentary_pos, section, main_simanim, commentary_simanim,
                   unit_pos, merged_simanim, outputs, log, success_count,
                   fail_count, tally>>

\* The end of an iteration of that loop: the unit's record is appended
FinishUnit ==
    /\ pc = "done"
    /\ merged_simanim' = Append(merged_simanim,
                                [siman |-> siman_num, entries |-> entries])
    /\ unit_pos' = unit_pos + 1
    /\ pc' = "unit"
    /\ UNCHANGED <<siman_num, main_content, comm_content, unit_locals,
                   batch_fixed, commentary_name, section_pos, commentary_pos,
                   section, main_simanim, commentary_simanim, outputs, log,
                   success_count, fail_count, tally>>

\* One iteration of the unit loop of TurPlaceholderMerger: the unit's
\* entries are built and its record appended when there are any
MergeUnit ==
    /\ pc = "unit"
    /\ merger = "TurPlaceholderMerger"
    /\ unit_pos <= Len(main_simanim)
    /\ siman_num' = main_simanim[unit_pos].num
    /\ main_content' = main_simanim[unit_pos].content
    /\ comm_content' = CommentaryDictGet(commentary_simanim, siman_num')
    /\ entries' = PlaceholderEntries(main_content', comm_content', siman_num',
                                     commentary_name, clean_text)
    /\ merged_simanim' =
           IF entries' # <<>>
           THEN Append(merged_simanim,
                       [siman |-> siman_num', entries |-> entries'])
           ELSE merged_simanim
    /\ unit_pos' = unit_pos + 1
    /\ UNCHANGED <<pc, main_segments, segments, index_map, used_indices,
                   text_index, seg_pos, cursor, batch_fixed, commentary_name,
                   section_pos, commentary_pos, section, main_simanim,
                   commentary_simanim, outputs, log, success_count, fail_count,
                   tally>>

\* After the unit loop: merge_section_with_commentary returns the document
\* and merge_all writes it
WritePair ==
    /\ pc = "unit"
    /\ unit_pos > Len(main_simanim)
    /\ PairEnds(section, commentary_name, "saved",
                <<[section            |-> section,
                   commentary         |-> commentary_name,
                   commentary_display |-> CommentaryDisplay,
                   total_simanim      |-> Len(merged_simanim),
                   simanim            |-> merged_simanim]>>)
    /\ UNCHANGED <<siman_num, main_content, comm_content, unit_locals,
                   batch_fixed, commentary_name, section, main_simanim,
                   commentary_simanim, unit_pos, merged_simanim, tally>>

\* An exception while a unit is worked on (a MemoryError, say): nothing in
\* merge_section_with_commentary catches it, so it reaches the handler of
\* merge_all
RaiseInUnit ==
    /\ \/ pc \in {"build", "scan"}
       \/ /\ pc = "unit"
          /\ merger = "TurPlaceholderMerger"
          /\ unit_pos <= Len(main_simanim)
    /\ PairEnds(section, commentary_name, "error", <<>>)
    /\ UNCHANGED <<siman_num, main_content, comm_content, unit_locals,
                   batch_fixed, commentary_name, section, main_simanim,
                   commentary_simanim, unit_pos, merged_simanim, tally>>

\* After the loops: TurPlaceholderMerger logs its two counters, and
\* TurCommentaryMerger nothing
Finish ==
    /\ pc = "pair"
    /\ section_pos > Len(sections_to_process)
    /\ tally' = IF merger = "TurPlaceholderMerger"
                THEN <<[successful |-> success_count, failed |-> fail_count]>>
                ELSE <<>>
    /\ pc' = "finished"
    /\ UNCHANGED <<siman_num, main_content, comm_content, unit_locals,
                   batch_fixed, commentary_name, section_pos, commentary_pos,
                   section, main_simanim, commentary_simanim, unit_pos,
                   merged_simanim, outputs, log, success_count, fail_count>>

\* The sections and commentaries of the batch.
BatchSections == <<OrachChaim, YorehDeah>>

BatchCommentaries == <<Bach, BeitYosef>>

UnitOf(text) == JList(<<JStr(text)>>)

\* The units of a primary file in good order: markers of Bach and markers
\* without a commentator, before and after text.
GoodUnits(section_name) ==
    IF section_name = OrachChaim
    THEN <<UnitOf(BachMarker(<<"1", ".", "1">>) \o <<" ", "a">>),
           UnitOf(<<"z", " ">> \o Marker(<<"2", ".", "1">>))>>
    ELSE <<UnitOf(<<"a">>),
           UnitOf(BachMarker(<<"2", ".", "1">>))>>

\* {"text": {section: value}}
Document(section_name, value) ==
    JDict(<<JPair(TextKey, JDict(<<JPair(section_name, value)>>))>>)

Introduction ==
    <<"I", "n", "t", "r", "o", "d", "u", "c", "t", "i", "o", "n">>

\* The files a run is given for a section.
FileOfKind(kind, section_name, good) ==
    CASE kind = "good"       -> File("json", Document(section_name, good))
      [] kind = "absent"     -> File("absent", JNone)
      [] kind = "lfs"        -> File("lfs", JNone)
      [] kind = "malformed"  -> File("malformed", JNone)
      [] kind = "list"       -> File("json", JList(<<JStr(<<"x">>)>>))
      [] kind = "empty"      -> File("json", JDict(<<>>))
      [] kind = "text_list"  ->
            File("json", JDict(<<JPair(TextKey, JList(<<JStr(<<"x">>)>>))>>))
      [] kind = "no_section" ->
            File("json", Document(<<"O", "t", "h", "e", "r">>, good))
      [] kind = "no_units"   -> File("json", Document(section_name, JList(<<>>)))
      [] kind = "intro"      ->
            File("json", Document(section_name,
                     JDict(<<JPair(Introduction, JList(<<JStr(<<"x">>)>>))>>)))
      [] kind = "scalar"     -> File("json", Document(section_name, JStr(<<"x">>)))

MainKinds == {"absent", "lfs", "malformed", "list", "empty", "text_list",
              "no_section", "no_units", "intro", "scalar"}

CommKinds == {"absent", "lfs", "list", "no_section", "scalar"}

\* A file is missing: absent, or a pointer not fetched yet.
MissingKinds == {"absent", "lfs"}

\* The files of a run that are not in good order: none, one primary file,
\* one commentary file, or a missing primary file and a missing commentary
\* file.
OddFiles ==
    {odd \in [main_section : Range(BatchSections),
              main_kind    : MainKinds \cup {"good"},
              comm_section : Range(BatchSections),
              commentary   : Range(BatchCommentaries),
              comm_kind    : CommKinds \cup {"good"}] :
        \/ odd.main_kind = "good"
        \/ odd.comm_kind = "good"
        \/ odd.main_kind \in MissingKinds /\ odd.comm_kind \in MissingKinds}

MainFileOf(odd, section_name) ==
    FileOfKind(IF odd.main_section = section_name THEN odd.main_kind ELSE "good",
               section_name, JList(GoodUnits(section_name)))

CommFileOf(odd, pair) ==
    FileOfKind(IF odd.comm_section = pair[1] /\ odd.commentary = pair[2]
               THEN odd.comm_kind
               ELSE "good",
               pair[1],
               JList(<<Fragments(2), Fragments(1)>>))

InitBatch ==
    /\ pc = "pair"
    /\ merger \in {"TurCommentaryMerger", "TurPlaceholderMerger"}
    /\ sections_to_process = BatchSections
    /\ commentaries_to_process = BatchCommentaries
    /\ \E odd \in OddFiles :
          /\ main_files = [x \in Range(BatchSections) |-> MainFileOf(odd, x)]
          /\ comm_files = [pair \in Range(BatchSections) \X Range(BatchCommentaries)
                              |-> CommFileOf(odd, pair)]
    /\ commentary_name = Bach
    /\ section = OrachChaim
    /\ section_pos = 1
    /\ commentary_pos = 1
    /\ main_simanim = <<>>
    /\ commentary_simanim = <<>>
    /\ unit_pos = 1
    /\ merged_simanim = <<>>
    /\ outputs = <<>>
    /\ log = <<>>
    /\ success_count = 0
    /\ fail_count = 0
    /\ tally = <<>>
    /\ siman_num = 1
    /\ main_content = JNone
    /\ comm_content = JNone
    /\ clean_text = TRUE
    /\ UnitIdle
    /\ CleanIdle
    /\ section_data = JNone
    /\ simanim = <<>>

NextBatch ==
    \/ LoadPair
    \/ StartUnit
    \/ Prepare
    \/ ConsumeMarker
    \/ FinishSegment
    \/ AppendUnplaced
    \/ FinishUnit
    \/ MergeUnit
    \/ WritePair
    \/ RaiseInUnit
    \/ Finish

SpecBatch == InitBatch /\ [][NextBatch]_vars

\* Units of TurPlaceholderMerger whose markers name Bach.
PlaceholderPieces == {"mB", "mB1.2", "mB7", "a", "|"}

\* TurPlaceholderMerger at the head of its unit loop, Bach being merged into
\* a section of one unit.
InitPlaceholder ==
    /\ pc = "unit"
    /\ merger = "TurPlaceholderMerger"
    /\ sections_to_process = <<OrachChaim>>
    /\ commentaries_to_process = <<Bach>>
    /\ main_files = <<>>
    /\ comm_files = <<>>
    /\ commentary_name = Bach
    /\ section = OrachChaim
    /\ section_pos = 1
    /\ commentary_pos = 1
    /\ \E u \in SimanNums :
          /\ \E names \in PieceSeqs(PlaceholderPieces) :
                main_simanim = <<[num |-> u, content |-> JList(Spell(names, <<>>))]>>
          /\ \E n \in 0..MaxFragments :
                commentary_simanim = <<[num |-> u, content |-> Fragments(n)]>>
    /\ unit_pos = 1
    /\ merged_simanim = <<>>
    /\ outputs = <<>>
    /\ log = <<>>
    /\ success_count = 0
    /\ fail_count = 0
    /\ tally = <<>>
    /\ siman_num = 1
    /\ main_content = JNone
    /\ comm_content = JNone
    /\ clean_text = TRUE
    /\ UnitIdle
    /\ CleanIdle
    /\ section_data = JNone
    /\ simanim = <<>>

NextPlaceholderUnit == MergeUnit

SpecPlaceholder == InitPlaceholder /\ [][NextPlaceholderUnit]_vars

Paragraphs == <<"p", "a", "r", "a", "g", "r", "a", "p", "h", "s">>

\* The leaves of the nested values flattened: None, strings with and
\* without surrounding whitespace, a blank string, a number.
FlattenLeaves == {JNone, JStr(<<"a">>), JStr(<<" ", "b", " ">>), JStr(<<" ">>),
                  JInt(7)}

\* A list or a dictionary of two leaves, the dictionary with or without the
\* key "paragraphs".
FlattenNested ==
    FlattenLeaves
    \cup {JList(<<x, y>>) : x, y \in FlattenLeaves}
    \cup {JDict(<<JPair(Paragraphs, x), JPair(<<"x">>, y)>>) : x, y \in FlattenLeaves}
    \cup {JDict(<<JPair(<<"x">>, x), JPair(Paragraphs, y)>>) : x, y \in FlattenLeaves}
    \cup {JDict(<<JPair(<<"x">>, x), JPair(<<"y">>, y)>>) : x, y \in FlattenLeaves}

FlattenInputs ==
    FlattenNested \cup {JList(<<x, y>>) : x \in FlattenNested, y \in FlattenNested}

\* flatten_to_strings is about to be called on the primary content.
InitFlatten ==
    /\ pc = "flatten"
    /\ merger \in {"TurCommentaryMerger", "TurPlaceholderMerger"}
    /\ main_content \in FlattenInputs
    /\ clean_text \in BOOLEAN
    /\ siman_num = 1
    /\ comm_content = JNone
    /\ commentary_name = Bach
    /\ sections_to_process = <<>>
    /\ commentaries_to_process = <<>>
    /\ main_files = <<>>
    /\ comm_files = <<>>
    /\ section_pos = 1
    /\ commentary_pos = 1
    /\ section = OrachChaim
    /\ main_simanim = <<>>
    /\ commentary_simanim = <<>>
    /\ unit_pos = 1
    /\ merged_simanim = <<>>
    /\ outputs = <<>>
    /\ log = <<>>
    /\ success_count = 0
    /\ fail_count = 0
    /\ tally = <<>>
    /\ UnitIdle
    /\ CleanIdle
    /\ section_data = JNone
    /\ simanim = <<>>

\* flatten_to_strings of the class at work, on the primary content
Flatten ==
    /\ pc = "flatten"
    /\ main_segments' = IF merger = "TurPlaceholderMerger"
                         THEN PlaceholderFlatten(main_content, clean_text)
                         ELSE FlattenToStrings(main_content, clean_text)
    /\ pc' = "flattened"
    /\ UNCHANGED <<inputs, segments, index_map, used_indices, entries,
                   text_index, seg_pos, cursor>>

NextFlatten == Flatten

SpecFlatten == InitFlatten /\ [][NextFlatten]_vars


(***************************************************************************)
(* What the claims speak of.                                               *)
(***************************************************************************)
\* The entries in reading order: an entry with both keys reads as its text,
\* then its commentary.
RECURSIVE FlatEntries(_)
FlatEntries(es) ==
    IF es = <<>>
    THEN <<>>
    ELSE (IF Head(es).text # <<>> THEN <<Entry(Head(es).text, <<>>)>> ELSE <<>>)
         \o (IF Head(es).commentary # <<>>
             THEN <<Entry(<<>>, Head(es).commentary)>>
             ELSE <<>>)
         \o FlatEntries(Tail(es))

\* The commentary payloads of the entries, in reading order
RECURSIVE CommentaryPayloads(_)
CommentaryPayloads(es) ==
    IF es = <<>>
    THEN <<>>
    ELSE Head(es).commentary \o CommentaryPayloads(Tail(es))

\* The contents of the text entries, in reading order
RECURSIVE TextContents(_)
TextContents(es) ==
    IF es = <<>>
    THEN <<>>
    ELSE (IF Head(es).text # <<>> THEN <<Head(es).text[1].content>> ELSE <<>>)
         \o TextContents(Tail(es))

WithStatus(payloads, statuses) ==
    SelectSeq(payloads, LAMBDA p : p.status \in statuses)

\* The commentary payloads a marker produced, and those that consumed a
\* fragment.
MarkerPayloads == WithStatus(CommentaryPayloads(entries), {"matched", "fallback", "missing"})

ConsumingPayloads == WithStatus(CommentaryPayloads(entries), {"matched", "fallback"})

UnplacedPayloads == WithStatus(CommentaryPayloads(entries), {"unplaced"})

\* The order attributes of the markers of a string, left to right.
RECURSIVE MarkerOrdersFrom(_, _)
MarkerOrdersFrom(s, from) ==
    LET m == NextPlaceholder(s, from)
    IN  IF m.start = 0
        THEN <<>>
        ELSE <<AttrGet(ParseTagAttributes(m.group1), DataOrder)>>
             \o MarkerOrdersFrom(s, m.end + 1)

\* The order attributes of the markers of the unit's primary text.
RECURSIVE MarkerOrdersOf(_)
MarkerOrdersOf(strings) ==
    IF strings = <<>>
    THEN <<>>
    ELSE MarkerOrdersFrom(Head(strings), 1) \o MarkerOrdersOf(Tail(strings))

UnitMarkerOrders == MarkerOrdersOf(main_segments)

FragmentCount == Len(segments)

(***************************************************************************)
(* C1. At-most-once consumption: the commentary entries with status        *)
(* matched or fallback carry pairwise different fragment indices, they are *)
(* the consumed set, and there are never more of them than fragments.      *)
(***************************************************************************)
C1_AtMostOnceConsumption ==
    LET c == ConsumingPayloads
    IN  /\ \A i, j \in 1..Len(c) : i # j => c[i].comment_index # c[j].comment_index
        /\ used_indices = {c[i].comment_index : i \in 1..Len(c)}
        /\ used_indices \subseteq 1..FragmentCount
        /\ Len(c) <= FragmentCount

\* Two markers carry the same order token: the first matched its fragment,
\* the second had to take another.
C1_Witness ==
    /\ pc = "done"
    /\ \E i, j \in 1..Len(MarkerPayloads) :
          /\ i < j
          /\ MarkerPayloads[i].order = MarkerPayloads[j].order
          /\ MarkerPayloads[i].status = "matched"
          /\ MarkerPayloads[j].status = "fallback"

(***************************************************************************)
(* C2. No commentary is dropped: when the unit is done every fragment is   *)
(* in exactly one commentary entry, and the fragments no marker consumed   *)
(* are the last entries, unplaced, in their original order.                *)
(***************************************************************************)
C2_NoFragmentDropped ==
    pc = "done" =>
        LET all      == CommentaryPayloads(entries)
            unplaced == UnplacedPayloads
            first    == Len(entries) - Len(unplaced)
        IN  /\ \A i \in 1..FragmentCount :
                  Cardinality({k \in 1..Len(all) : all[k].comment_index = i}) = 1
            /\ \A k \in 1..Len(entries) :
                  IF k <= first
                  THEN \A p \in Range(entries[k].commentary) : p.status # "unplaced"
                  ELSE /\ entries[k].text = <<>>
                       /\ entries[k].commentary = <<unplaced[k - first]>>
            /\ \A k \in 1..Len(unplaced) :
                  /\ unplaced[k].comment_index \notin used_indices
                  /\ unplaced[k].content =
                        (IF clean_text
                         THEN segments[unplaced[k].comment_index].clean
                         ELSE Strip(segments[unplaced[k].comment_index].raw))
                  /\ k > 1 => unplaced[k - 1].comment_index < unplaced[k].comment_index

\* A unit with consumed and with several unplaced fragments.
C2_Witness ==
    /\ pc = "done"
    /\ used_indices # {}
    /\ Len(UnplacedPayloads) >= 2
    /\ UnplacedPayloads[1].comment_index = 1

(***************************************************************************)
(* C3. Every marker of the unit's primary text yields exactly one          *)
(* commentary entry, in the order of the markers; a marker left without a  *)
(* fragment yields an entry with status missing and no content.            *)
(***************************************************************************)
C3_OneEntryPerMarker ==
    /\ pc = "done" =>
          /\ Len(MarkerPayloads) = Len(UnitMarkerOrders)
          /\ \A k \in 1..Len(MarkerPayloads) :
                MarkerPayloads[k].order = UnitMarkerOrders[k]
    /\ \A k \in 1..Len(entries) : Len(entries[k].commentary) <= 1
    /\ \A p \in Range(MarkerPayloads) :
          (p.status = "missing") <=> (p.content = None /\ p.comment_index = 0)

\* A unit with more markers than fragments: the last marker is left without.
C3_Witness ==
    /\ pc = "done"
    /\ Len(UnitMarkerOrders) >= 2
    /\ MarkerPayloads[Len(MarkerPayloads)].status = "missing"
    /\ MarkerPayloads[1].status = "matched"

TextsOf(strings, clean) ==
    SelectSeq([k \in 1..Len(strings) |-> ProcessBuffer(strings[k], clean)],
              LAMBDA t : t # <<>>)

KeyOwners(order) ==
    {i \in 1..FragmentCount : order \in Range(segments[i].keys)}

AllOrdersAreKeys ==
    \A k \in 1..Len(UnitMarkerOrders) : KeyOwners(UnitMarkerOrders[k]) # {}

OrdersNameDistinctFragments ==
    \A j, k \in 1..Len(UnitMarkerOrders) :
        j # k => KeyOwners(UnitMarkerOrders[j]) \cap KeyOwners(UnitMarkerOrders[k]) = {}

(***************************************************************************)
(* C5.  As claimed: M markers, at least M fragments, every order token a   *)
(* key of a fragment: all M entries matched, no fragment unplaced.         *)
(***************************************************************************)
C5_AsClaimed ==
    (/\ pc = "done"
     /\ Len(UnitMarkerOrders) <= FragmentCount
     /\ AllOrdersAreKeys) =>
        /\ \A p \in Range(MarkerPayloads) : p.status = "matched"
        /\ UnplacedPayloads = <<>>

(***************************************************************************)
(* C5, amended.  M markers, at least M fragments, the order tokens keys of *)
(* M different fragments: every marker is matched to the fragment its      *)
(* token names, and exactly the N - M fragments no marker names are        *)
(* unplaced.                                                               *)
(***************************************************************************)
C5_DistinctExactKeysMatch ==
    (/\ pc = "done"
     /\ Len(UnitMarkerOrders) <= FragmentCount
     /\ AllOrdersAreKeys
     /\ OrdersNameDistinctFragments) =>
        /\ Len(MarkerPayloads) = Len(UnitMarkerOrders)
        /\ \A k \in 1..Len(MarkerPayloads) :
              /\ MarkerPayloads[k].status = "matched"
              /\ MarkerPayloads[k].comment_index \in KeyOwners(UnitMarkerOrders[k])
              /\ MarkerPayloads[k].resolved_order = UnitMarkerOrders[k]
        /\ Len(UnplacedPayloads) = FragmentCount - Len(UnitMarkerOrders)

\* Two markers naming fragments 2 and 1, in that order, of three.
C5_Witness ==
    /\ pc = "done"
    /\ Len(UnitMarkerOrders) = 2
    /\ FragmentCount = 3
    /\ AllOrdersAreKeys
    /\ OrdersNameDistinctFragments
    /\ KeyOwners(UnitMarkerOrders[1]) = {2}
    /\ KeyOwners(UnitMarkerOrders[2]) = {1}

\* How many of the first n marker payloads consumed a fragment.
ConsumedBefore(n) ==
    Len(WithStatus(SubSeq(MarkerPayloads, 1, n), {"matched", "fallback"}))

(***************************************************************************)
(* C6.  A marker processed when every fragment of the unit is consumed     *)
(* yields an entry with status missing and no content; a unit with M       *)
(* markers and N < M fragments ends with M - N such entries.               *)
(***************************************************************************)
C6_MissingWhenExhausted ==
    /\ \A k \in 1..Len(MarkerPayloads) :
          ConsumedBefore(k - 1) = FragmentCount =>
              /\ MarkerPayloads[k].status = "missing"
              /\ MarkerPayloads[k].content = None
    /\ (pc = "done" /\ Len(UnitMarkerOrders) > FragmentCount) =>
          Len(WithStatus(MarkerPayloads, {"missing"}))
              = Len(UnitMarkerOrders) - FragmentCount

\* Three markers, one fragment: the unit is done, two markers went without.
C6_Witness ==
    /\ pc = "done"
    /\ FragmentCount = 1
    /\ Len(UnitMarkerOrders) = 3
    /\ Len(WithStatus(MarkerPayloads, {"missing"})) = 2

\* The text spans of a string: before, between and after its markers.
RECURSIVE SpansFrom(_, _)
SpansFrom(s, from) ==
    LET m == NextPlaceholder(s, from)
    IN  IF m.start = 0
        THEN <<SubSeq(s, from, Len(s))>>
        ELSE <<SubSeq(s, from, m.start - 1)>> \o SpansFrom(s, m.end + 1)

RECURSIVE SpansOf(_)
SpansOf(strings) ==
    IF strings = <<>>
    THEN <<>>
    ELSE SpansFrom(Head(strings), 1) \o SpansOf(Tail(strings))

\* What a reader meets in a string, left to right: the text of each span
\* that has any, and after each span but the last the order of a marker.
RECURSIVE Interleave(_, _, _)
Interleave(spans, orders, clean) ==
    IF spans = <<>>
    THEN <<>>
    ELSE (IF ProcessBuffer(Head(spans), clean) # <<>>
          THEN <<[kind |-> "text", what |-> ProcessBuffer(Head(spans), clean)]>>
          ELSE <<>>)
         \o (IF orders # <<>>
             THEN <<[kind |-> "commentary", what |-> Head(orders)]>>
             ELSE <<>>)
         \o Interleave(Tail(spans), IF orders # <<>> THEN Tail(orders) ELSE <<>>, clean)

RECURSIVE ReadingOrderOf(_, _)
ReadingOrderOf(strings, clean) ==
    IF strings = <<>>
    THEN <<>>
    ELSE Interleave(SpansFrom(Head(strings), 1),
                    MarkerOrdersFrom(Head(strings), 1), clean)
         \o ReadingOrderOf(Tail(strings), clean)

\* What the entries hold, in order, up to the unplaced fragments.
RECURSIVE EntriesRead(_)
EntriesRead(flat) ==
    IF flat = <<>>
    THEN <<>>
    ELSE (IF Head(flat).text # <<>>
          THEN <<[kind |-> "text", what |-> Head(flat).text[1].content]>>
          ELSE IF Head(flat).commentary[1].status # "unplaced"
               THEN <<[kind |-> "commentary", what |-> Head(flat).commentary[1].order]>>
               ELSE <<>>)
         \o EntriesRead(Tail(flat))

\* Each entry of the worked example as the claim writes it.
RECURSIVE ExampleRead(_)
ExampleRead(flat) ==
    IF flat = <<>>
    THEN <<>>
    ELSE <<IF Head(flat).text # <<>>
           THEN <<"text", Head(flat).text[1].content>>
           ELSE <<"commentary", Head(flat).commentary[1].content,
                  <<Head(flat).commentary[1].status>>,
                  Head(flat).commentary[1].resolved_order>> >>
         \o ExampleRead(Tail(flat))

(***************************************************************************)
(* C7.  The entries of a unit keep the reading order: read text first,     *)
(* commentary second within an entry, they are the text of each span that  *)
(* has any and the commentary of each marker, as the primary text has      *)
(* them, and a span without text (before a leading marker, between         *)
(* adjacent markers) gives no text entry.  The worked example reads        *)
(* commentary(A, matched, 1.1), text(Rule one.), commentary(B, matched,    *)
(* 1.2), text(Rule two.).                                                  *)
(***************************************************************************)
C7_ReadingOrder ==
    pc = "done" =>
        /\ EntriesRead(FlatEntries(entries)) = ReadingOrderOf(main_segments, clean_text)
        /\ \A t \in Range(TextContents(entries)) : t # <<>>
        /\ (main_content = ExampleMain /\ comm_content = ExampleComm) =>
              ExampleRead(FlatEntries(entries)) =
                  << <<"commentary", CommentA, <<"matched">>, <<"1", ".", "1">> >>,
                     <<"text", RuleOne>>,
                     <<"commentary", CommentB, <<"matched">>, <<"1", ".", "2">> >>,
                     <<"text", RuleTwo>> >>

\* The worked example, processed to the end.
C7_Witness ==
    /\ pc = "done"
    /\ main_content = ExampleMain
    /\ comm_content = ExampleComm
    /\ Len(FlatEntries(entries)) = 4

RECURSIVE Concat(_)
Concat(strings) ==
    IF strings = <<>> THEN <<>> ELSE Head(strings) \o Concat(Tail(strings))

\* The primary text of the unit with its markup and markers removed.
CleanedPrimaryText == CleanText(JoinBySpace(main_segments))

\* No span of the primary text has a "<" that tag removal leaves behind.
EveryBracketClosesInItsSpan ==
    \A span \in Range(SpansOf(main_segments)) : "<" \notin Range(RemoveTags(span))

(***************************************************************************)
(* C8.  As claimed: the contents of the text entries of a unit, joined in  *)
(* order, are the cleaned primary text of the unit.                        *)
(***************************************************************************)
C8_AsClaimed ==
    pc = "done" => Concat(TextContents(entries)) = CleanedPrimaryText

(***************************************************************************)
(* C8, amended.  With cleaning on, and no span of text between markers     *)
(* holding a "<" that does not open a tag closed in the same span, the     *)
(* contents of the text entries joined in order are the cleaned primary    *)
(* text up to whitespace: no other character is lost, duplicated or moved. *)
(***************************************************************************)
C8_RoundTripUpToWhitespace ==
    (pc = "done" /\ clean_text /\ EveryBracketClosesInItsSpan) =>
        RemoveWhitespace(Concat(TextContents(entries)))
            = RemoveWhitespace(CleanedPrimaryText)

\* Text on both sides of a marker, and a blank that the joined contents
\* lose.
C8_Witness ==
    /\ pc = "done"
    /\ clean_text
    /\ EveryBracketClosesInItsSpan
    /\ Len(TextContents(entries)) >= 2
    /\ UnitMarkerOrders # <<>>
    /\ Concat(TextContents(entries)) # CleanedPrimaryText

\* The ordinals of the units returned.
Ordinals == [k \in 1..Len(simanim) |-> simanim[k].num]

\* The section value is a dictionary with a list under the empty string.
EmptyKeyHoldsList ==
    /\ section_data.type = "dict"
    /\ \E j \in 1..Len(section_data.items) :
          /\ section_data.items[j].str = <<>>
          /\ section_data.items[j].items[1].type = "list"

\* The list under the empty string.
EmptyKeyList ==
    section_data.items[CHOOSE j \in 1..Len(section_data.items) :
                           section_data.items[j].str = <<>>].items[1].items

\* The pairs of a dictionary that have a value and a number in the key.
NumberedKeys ==
    {j \in 1..Len(section_data.items) :
        /\ section_data.items[j].items[1].type # "none"
        /\ \E c \in Range(section_data.items[j].str) : IsDigit(c)}

(***************************************************************************)
(* C9.  As claimed: for every shape of the section value the ordinals of   *)
(* the units returned are 1, 2, 3, ... without gap or duplicate.           *)
(***************************************************************************)
C9_AsClaimed ==
    pc = "normalised" => \A k \in 1..Len(simanim) : simanim[k].num = k

(***************************************************************************)
(* C9, amended.  For a list, and for a dictionary with a list under the    *)
(* empty string, the ordinals are 1..N by position.  For any other         *)
(* dictionary the ordinals are the first integers of its keys, one unit    *)
(* per key that has an integer and a value, in ascending order: they may   *)
(* start above 1, leave gaps, and repeat.  Any other value gives no unit.  *)
(***************************************************************************)
C9_OrdinalsByShape ==
    pc = "normalised" =>
        /\ (section_data.type = "list" \/ EmptyKeyHoldsList) =>
              \A k \in 1..Len(simanim) : simanim[k].num = k
        /\ (section_data.type = "dict" /\ ~EmptyKeyHoldsList) =>
              /\ \A k \in 1..Len(simanim) - 1 : simanim[k].num <= simanim[k + 1].num
              /\ Len(simanim) = Cardinality(NumberedKeys)
              /\ \E place \in [NumberedKeys -> 1..Len(simanim)] :
                    /\ \A i, j \in NumberedKeys : i # j => place[i] # place[j]
                    /\ \A j \in NumberedKeys :
                          /\ simanim[place[j]].content = section_data.items[j].items[1]
                          /\ simanim[place[j]].num =
                                StrToNat(FindNumbers(section_data.items[j].str)[1])
        /\ section_data.type \notin {"list", "dict"} => simanim = <<>>

\* A dictionary with keys "3" and "1", in that order: units 1 and 3.
C9_Witness ==
    /\ pc = "normalised"
    /\ section_data.type = "dict"
    /\ Len(section_data.items) = 2
    /\ section_data.items[1].str = <<"3">>
    /\ section_data.items[2].str = <<"1">>
    /\ Ordinals = <<1, 3>>

(***************************************************************************)
(* C10.  A dictionary with a list under the empty string gives the         *)
(* elements of that list with ordinals 1..N by position; every other key,  *)
(* numbered keys included, is ignored.                                     *)
(***************************************************************************)
C10_EmptyKeyFirst ==
    (pc = "normalised" /\ EmptyKeyHoldsList) =>
        /\ Len(simanim) = Len(EmptyKeyList)
        /\ \A k \in 1..Len(simanim) :
              /\ simanim[k].num = k
              /\ simanim[k].content = EmptyKeyList[k]

\* A list under the empty string next to a numbered key with a value.
C10_Witness ==
    /\ pc = "normalised"
    /\ EmptyKeyHoldsList
    /\ NumberedKeys # {}
    /\ Ordinals = <<1, 2>>

\* The section value is a dictionary without a list under the empty string.
NumberedDictionary == section_data.type = "dict" /\ ~EmptyKeyHoldsList

\* The pairs of the dictionary whose key has an integer.
IntegerKeys ==
    {j \in 1..Len(section_data.items) :
        \E c \in Range(section_data.items[j].str) : IsDigit(c)}

\* The first integer of the key of pair j.
IntegerOfKey(j) == StrToNat(FindNumbers(section_data.items[j].str)[1])

\* The units returned are the pairs kept, each once, under the integer of
\* its key, in ascending order of that integer.
UnitsAreSorted(kept) ==
    /\ Len(simanim) = Cardinality(kept)
    /\ \A j \in kept : \E k \in 1..Len(simanim) :
          /\ simanim[k].num = IntegerOfKey(j)
          /\ simanim[k].content = section_data.items[j].items[1]
    /\ \A k \in 1..Len(simanim) : \E j \in kept :
          /\ simanim[k].num = IntegerOfKey(j)
          /\ simanim[k].content = section_data.items[j].items[1]
    /\ \A k, l \in 1..Len(simanim) : k < l => simanim[k].num <= simanim[l].num

C17_CleanTextIdempotent ==
    pc = "cleaned" => CleanTextOf(cleaner, text_out) = text_out

\* lit occurs in s.
HasSubstring(s, lit) == \E p \in 1..Len(s) : HasLiteralAt(s, p, lit)

\* The string holds one marker written with both attributes the mergers
\* read, in either order, with or without others.
MarkerHasBoth ==
    /\ HasSubstring(text_in, MarkerAttribute("commentator"))
    /\ HasSubstring(text_in, MarkerAttribute("order"))

(***************************************************************************)
(* C18.  A marker with a commentator and an order attribute is recognised, *)
(* and the same commentator and order token are read off it, whichever     *)
(* attribute comes first and whatever other attributes it carries.         *)
(***************************************************************************)
C18_MarkerRecognised ==
    (pc = "recognised" /\ MarkerHasBoth) =>
        placeholders = <<[commentator |-> <<"B", "a", "c", "h">>,
                          order       |-> <<"1", ".", "1">>]>>

\* The order token of the marker the scan meets next.
NextOrder ==
    AttrGet(ParseTagAttributes(
                NextPlaceholder(main_segments[seg_pos], cursor).group1),
            DataOrder)

\* The candidate keys of that token, in generation order.
NextCandidates ==
    IF Truthy(NextOrder)
    THEN NormaliseOrderCandidates(NextOrder, siman_num)
    ELSE <<>>

\* The fragments not consumed yet, and those of them indexed under a key.
Unconsumed == {i \in 1..Len(segments) : i \notin used_indices}

UnconsumedUnder(key) == {i \in Unconsumed : key \in Range(segments[i].keys)}

\* The places in the candidate list of the keys that lead to a fragment not
\* consumed yet.
LiveCandidates ==
    {k \in 1..Len(NextCandidates) : UnconsumedUnder(NextCandidates[k]) # {}}

\* The scan is at a marker and the step resolves it.
MarkerIsResolved ==
    /\ pc = "scan"
    /\ seg_pos <= Len(main_segments)
    /\ NextPlaceholder(main_segments[seg_pos], cursor).start > 0
    /\ Len(entries') = Len(entries) + 1

(***************************************************************************)
(* C19.  Matching precedence: a marker is resolved to the first fragment   *)
(* not consumed yet under the earliest candidate key that has one, with    *)
(* status matched; only when no candidate key has one, to the lowest       *)
(* fragment not consumed yet, with status fallback; only when every        *)
(* fragment is consumed does it get status missing.  The fragment chosen   *)
(* is consumed by the step.                                                *)
(***************************************************************************)
C19_MatchingPrecedence ==
    [][MarkerIsResolved =>
          LET p == entries'[Len(entries')].commentary[1]
          IN  IF LiveCandidates # {}
              THEN /\ p.status = "matched"
                   /\ p.resolved_order = NextCandidates[Min(LiveCandidates)]
                   /\ p.comment_index = Min(UnconsumedUnder(p.resolved_order))
                   /\ used_indices' = used_indices \cup {p.comment_index}
              ELSE IF Unconsumed # {}
                   THEN /\ p.status = "fallback"
                        /\ p.comment_index = Min(Unconsumed)
                        /\ used_indices' = used_indices \cup {p.comment_index}
                   ELSE /\ p.status = "missing"
                        /\ p.comment_index = 0
                        /\ used_indices' = used_indices]_vars

\* One unit with a marker matched under a later candidate than its token as
\* written, a marker that fell back, and a marker left without a fragment.
C19_Witness ==
    /\ pc = "done"
    /\ \E p \in Range(MarkerPayloads) :
          p.status = "matched" /\ p.resolved_order # p.order
    /\ \E p \in Range(MarkerPayloads) : p.status = "fallback"
    /\ \E p \in Range(MarkerPayloads) : p.status = "missing"

\* The value of the last run of digits of an order token.
LastInteger(order) == StrToNat(FindNumbers(order)[Len(FindNumbers(order))])

(***************************************************************************)
(* C20.  Whenever a marker is resolved with status matched, the index of   *)
(* the fragment attached is the value of the last run of digits of the     *)
(* marker's order token.                                                   *)
(***************************************************************************)
C20_MatchedAtLastInteger ==
    \A p \in Range(MarkerPayloads) :
        p.status = "matched" => p.comment_index = LastInteger(p.order)

\* The pairs of the batch in the order of the two loops.
AllPairs ==
    [k \in 1..(Len(sections_to_process) * Len(commentaries_to_process)) |->
        <<sections_to_process[((k - 1) \div Len(commentaries_to_process)) + 1],
          commentaries_to_process[((k - 1) % Len(commentaries_to_process)) + 1]>>]

\* The pairs attempted so far, in the order of their outcomes.
LoggedPairs == [k \in 1..Len(log) |-> <<log[k].section, log[k].commentary>>]

\* The documents written for a pair.
DocumentsOf(section_name, commentary) ==
    {k \in 1..Len(outputs) : /\ outputs[k].section = section_name
                             /\ outputs[k].commentary = commentary}

(***************************************************************************)
(* C12.  merge_all attempts every (section, commentary) pair once, in the  *)
(* order of the loops, whatever the outcome of the pairs before, and when  *)
(* it ends it has reported a count of successes and a count of failures    *)
(* that add up to the number of pairs.                                     *)
(***************************************************************************)
C12_EveryPairAndTally ==
    /\ Len(log) <= Len(AllPairs)
    /\ LoggedPairs = SubSeq(AllPairs, 1, Len(log))
    /\ pc = "finished" =>
          /\ LoggedPairs = AllPairs
          /\ tally # <<>>
          /\ \A t \in Range(tally) : t.successful + t.failed = Len(AllPairs)

\* The file is absent or a pointer.
IsMissing(file) == file.kind \in {"absent", "lfs"}

\* The primary file of the section loads and holds the section.
PrimaryLoads(section_name) ==
    LET main_data == LoadJson(main_files[section_name])
    IN  /\ JTruthy(main_data)
        /\ ~SectionOf(main_data, section_name).raises
        /\ JTruthy(SectionOf(main_data, section_name).value)

\* No entry of the document carries the content of a commentary fragment.
NoCommentaryContent(document) ==
    \A u \in Range(document.simanim) :
    \A e \in Range(u.entries) :
    \A payload \in Range(e.commentary) : payload.content = None

\* C13 as the claim has it: a pair with a missing primary or commentary
\* file gets no output document.
C13_AsClaimed ==
    \A k \in 1..Len(log) :
        (\/ IsMissing(main_files[log[k].section])
         \/ IsMissing(comm_files[LoggedPairs[k]]))
        => DocumentsOf(log[k].section, log[k].commentary) = {}

(***************************************************************************)
(* C13.  A pair whose primary file is missing is skipped: it fails and     *)
(* gets no output document.  A pair whose commentary file is missing is    *)
(* merged as with a commentary without fragments: when its primary text    *)
(* loads it is saved unless an exception ends it, and its document carries *)
(* no commentary content.  Either way the batch goes on to the last pair.  *)
(***************************************************************************)
C13_MissingInput ==
    /\ \A k \in 1..Len(log) :
          /\ IsMissing(main_files[log[k].section]) =>
                /\ log[k].outcome = "failed"
                /\ DocumentsOf(log[k].section, log[k].commentary) = {}
          /\ (IsMissing(comm_files[LoggedPairs[k]])
                /\ PrimaryLoads(log[k].section)) =>
                /\ log[k].outcome \in {"saved", "error"}
                /\ log[k].outcome = "saved" <=>
                      DocumentsOf(log[k].section, log[k].commentary) # {}
                /\ \A d \in DocumentsOf(log[k].section, log[k].commentary) :
                      NoCommentaryContent(outputs[d])
    /\ pc = "finished" => LoggedPairs = AllPairs

\* A run that skipped a pair for its missing primary file, saved a pair
\* with a missing commentary file, and went on to the end.
C13_Witness ==
    /\ pc = "finished"
    /\ \E k \in 1..Len(log) :
          /\ IsMissing(main_files[log[k].section])
          /\ log[k].outcome = "failed"
    /\ \E k \in 1..Len(log) :
          /\ IsMissing(comm_files[LoggedPairs[k]])
          /\ log[k].outcome = "saved"
    /\ log[Len(log)].outcome = "saved"

\* The primary file loads, and the normaliser finds no unit in its section.
NoUnits(section_name) ==
    LET main_data == LoadJson(main_files[section_name])
    IN  /\ JTruthy(main_data)
        /\ ~SectionOf(main_data, section_name).raises
        /\ ExtractSimanim(SectionOf(main_data, section_name).value) = <<>>

(***************************************************************************)
(* C14.  A pair whose primary section data the normaliser finds no unit   *)
(* in gets no output document, and no exception ends it.                   *)
(***************************************************************************)
C14_NoUnitsNoDocument ==
    \A k \in 1..Len(log) :
        NoUnits(log[k].section) =>
            /\ DocumentsOf(log[k].section, log[k].commentary) = {}
            /\ log[k].outcome # "error"

\* The step is an exception ending the pair while one of its units is
\* worked on.
UnitAborts ==
    /\ pc \in {"unit", "build", "scan"}
    /\ Len(log') = Len(log) + 1
    /\ log'[Len(log')].outcome = "error"

(***************************************************************************)
(* C15.  When the work on a unit of a pair aborts, the records of the      *)
(* units finished before it are in the output document of the pair.        *)
(***************************************************************************)
C15_EarlierUnitsRetained ==
    [][(UnitAborts /\ merged_simanim # <<>>) =>
          \E d \in DocumentsOf(section, commentary_name)' :
              SubSeq(outputs'[d].simanim, 1, Len(merged_simanim))
                  = merged_simanim]_vars

\* The entries of a unit worked out from its own content alone: the scan of
\* the flattened primary text from a segment and a position on, with the
\* consumed-set and the text count so far, then the fragments left over.
RECURSIVE ScanFrom(_, _, _, _, _, _, _, _)
ScanFrom(main_strings, at, from, segs, used, count, siman, clean) ==
    IF at > Len(main_strings)
    THEN [k \in 1..Len(UnusedSegments(segs, used)) |->
             UnplacedEntry(UnusedSegments(segs, used)[k], clean)]
    ELSE LET m == NextPlaceholder(main_strings[at], from)
         IN  IF m.start > 0
             THEN LET attrs == ParseTagAttributes(m.group1)
                      r == ResolveCommentarySegment(AttrGet(attrs, DataOrder),
                               siman, segs, PrepareIndexMap(segs), used)
                      entry == MatchEntry(
                                   SubSeq(main_strings[at], from, m.start - 1),
                                   attrs, r, clean, count)
                  IN  <<entry>>
                      \o ScanFrom(main_strings, at, m.end + 1, segs, r.used,
                                  count + Len(entry.text), siman, clean)
             ELSE LET tail == TextOfBuffer(
                                  SubSeq(main_strings[at], from,
                                         Len(main_strings[at])),
                                  clean, count)
                  IN  (IF tail # <<>> THEN <<Entry(tail, <<>>)>> ELSE <<>>)
                      \o ScanFrom(main_strings, at + 1, 1, segs, used,
                                  count + Len(tail), siman, clean)

EntriesAlone(main, comm, siman, clean) ==
    ScanFrom(FlattenToStrings(main, FALSE), 1, 1,
             PrepareSegments(siman, FlattenToStrings(comm, FALSE)),
             {}, 0, siman, clean)

\* A pair of TurCommentaryMerger is in its unit loop.
InUnitLoop ==
    /\ merger = "TurCommentaryMerger"
    /\ pc \in {"unit", "build", "scan", "done"}

(***************************************************************************)
(* C16.  Units are independent: the entries of every unit of a pair, the   *)
(* one just finished and those recorded before, are the entries worked out  *)
(* from that unit's number, primary content and commentary content alone,  *)
(* with nothing consumed at the start, whatever units and pairs were       *)
(* worked on before it.                                                    *)
(***************************************************************************)
C16_UnitsIndependent ==
    InUnitLoop =>
        /\ pc = "done" =>
              entries = EntriesAlone(main_content, comm_content, siman_num,
                                     clean_text)
        /\ \A j \in 1..Len(merged_simanim) :
              /\ merged_simanim[j].siman = main_simanim[j].num
              /\ merged_simanim[j].entries =
                     EntriesAlone(main_simanim[j].content,
                                  CommentaryDictGet(commentary_simanim,
                                                    main_simanim[j].num),
                                  main_simanim[j].num, clean_text)

\* The second unit of a later pair is finished with a fragment matched,
\* after the first unit consumed a fragment of its own.
C16_Witness ==
    /\ InUnitLoop
    /\ pc = "done"
    /\ Len(log) > 0
    /\ Len(merged_simanim) = 1
    /\ \E e \in Range(merged_simanim[1].entries) :
       \E payload \in Range(e.commentary) : payload.status = "matched"
    /\ \E payload \in Range(MarkerPayloads) :
          payload.status = "matched" /\ payload.comment_index = 1

\* The order token has three runs of digits or more.
IsAmbiguous(order) == order # None /\ Len(FindNumbers(order)) >= 3

(***************************************************************************)
(* C21.  A marker whose order token is ambiguous, with three runs of       *)
(* digits or more, never gets status matched: it gets a fragment as        *)
(* fallback, or status missing when no fragment is left.                   *)
(***************************************************************************)
C21_AmbiguousNeverMatched ==
    \A payload \in Range(MarkerPayloads) :
        IsAmbiguous(payload.order) => payload.status \in {"fallback", "missing"}

\* A number written with at least width digits.
Padded(n, width) ==
    LET digits == NatToStr(n)
    IN  [k \in 1..(width - Len(digits)) |-> "0"] \o digits

\* The keys the claim lists for fragment i of unit u, but for the padded
\* forms of u.
KeysOfIndex(u, i) ==
    {NatToStr(u) \o <<".">> \o NatToStr(i),
     NatToStr(u) \o <<".">> \o Padded(i, 2),
     NatToStr(u) \o <<".">> \o Padded(i, 3),
     NatToStr(u) \o <<"-">> \o NatToStr(i),
     NatToStr(u) \o <<":">> \o NatToStr(i),
     NatToStr(i), Padded(i, 2), Padded(i, 3)}

\* The keys with u padded to two and to three digits.
KeysOfPaddedUnit(u, i) ==
    {Padded(u, 2) \o <<".">> \o NatToStr(i),
     Padded(u, 3) \o <<".">> \o NatToStr(i)}

\* The fragment is found in the lookup table under the key.
Retrievable(seg, key) ==
    /\ key \in DOMAIN index_map
    /\ \E k \in 1..Len(index_map[key]) : index_map[key][k].index = seg.index

\* C22 as the claim has it: the padded forms of the unit ordinal are keys
\* as well.
C22_AsClaimed ==
    \A seg \in Range(segments) :
    \A key \in KeysOfIndex(siman_num, seg.index)
                  \cup KeysOfPaddedUnit(siman_num, seg.index) :
        key \in Range(seg.keys) /\ Retrievable(seg, key)

(***************************************************************************)
(* C22.  The keys of fragment i of unit u are "u.i", "u.i" with i padded   *)
(* to two and to three digits, "u-i", "u:i", and i bare, padded to two and *)
(* to three digits; u is never padded; and the fragment is retrievable     *)
(* from the unit's lookup table under every one of its keys.               *)
(***************************************************************************)
C22_KeysOfFragment ==
    \A seg \in Range(segments) :
        /\ Range(seg.keys) = KeysOfIndex(siman_num, seg.index)
        /\ \A key \in Range(seg.keys) : Retrievable(seg, key)

\* A unit of two digits with a fragment of two digits indexed.
C22_Witness ==
    /\ pc = "scan"
    /\ siman_num = 12
    /\ \E seg \in Range(segments) :
          /\ seg.index = 11
          /\ Retrievable(seg, <<"1", "2", ".", "0", "1", "1">>)
          /\ Retrievable(seg, <<"0", "1", "1">>)

(***************************************************************************)
(* C30.  Within a unit's lookup table no key is shared by two fragments:   *)
(* the key lists of two different fragments have no key in common, and     *)
(* every entry of the table holds one fragment.                            *)
(***************************************************************************)
C30_KeysDisjoint ==
    /\ \A a, b \in 1..Len(segments) :
          a # b => Range(segments[a].keys) \cap Range(segments[b].keys) = {}
    /\ \A key \in DOMAIN index_map : Len(index_map[key]) = 1

\* A table of a unit with fragments 1, 10 and 11, whose keys share digits.
C30_Witness ==
    /\ pc = "scan"
    /\ Len(segments) >= 11
    /\ <<"0", "1", "0">> \in DOMAIN index_map
    /\ <<"0", "0", "1">> \in DOMAIN index_map
    /\ <<"0", "1", "1">> \in DOMAIN index_map

\* The number of empty inline elements of a string, from a position on,
\* that carry both a commentator and an order attribute.
RECURSIVE FullMarkersFrom(_, _)
FullMarkersFrom(s, from) ==
    LET m     == NextPlaceholder(s, from)
        attrs == ParseTagAttributes(m.group1)
    IN  IF m.start = 0
        THEN 0
        ELSE (IF /\ \E k \in 1..Len(attrs) : attrs[k].key = DataCommentator
                 /\ \E k \in 1..Len(attrs) : attrs[k].key = DataOrder
              THEN 1
              ELSE 0)
             + FullMarkersFrom(s, m.end + 1)

RECURSIVE FullMarkersOf(_)
FullMarkersOf(strings) ==
    IF strings = <<>>
    THEN 0
    ELSE FullMarkersFrom(Head(strings), 1) + FullMarkersOf(Tail(strings))

(***************************************************************************)
(* C23.  Only an element carrying both a commentator and an order          *)
(* attribute is a marker: a finished unit has one marker-derived           *)
(* commentary entry for each such element and no other, and its markers    *)
(* consumed no more fragments than there are such elements.                *)
(***************************************************************************)
C23_OnlyFullMarkers ==
    pc = "done" =>
        /\ Len(MarkerPayloads) = FullMarkersOf(main_segments)
        /\ Cardinality(used_indices) <= FullMarkersOf(main_segments)

(***************************************************************************)
(* C24.  TurPlaceholderMerger attaches no fragment to more than one        *)
(* placeholder of a unit: the commentary entries of a merged unit hold     *)
(* pairwise different fragments, repeated order tokens and tokens that     *)
(* match no key included.                                                  *)
(***************************************************************************)
C24_NoFragmentTwice ==
    (merger = "TurPlaceholderMerger" /\ pc = "unit" /\ unit_pos > 1) =>
        \A j, k \in 1..Len(CommentaryPayloads(entries)) :
            CommentaryPayloads(entries)[j].content
                    = CommentaryPayloads(entries)[k].content
                => j = k

\* The text a leaf string contributes: cleaned by the class at work when
\* the flag asks for it, then trimmed.
TrimmedLeaf(text) ==
    Strip(IF ~clean_text
          THEN text
          ELSE IF merger = "TurPlaceholderMerger"
               THEN PlaceholderCleanText(text, TRUE)
               ELSE CleanText(text))

\* The leaves of a value in depth-first order, a dictionary with the key
\* "paragraphs" read under that key only.
RECURSIVE LeavesOf(_)
RECURSIVE LeavesOfItems(_)
LeavesOf(item) ==
    CASE item.type = "none" -> <<>>
      [] item.type = "str"  -> <<item.str>>
      [] item.type = "int"  -> <<NatToStr(item.items[1])>>
      [] item.type = "list" -> LeavesOfItems(item.items)
      [] item.type = "pair" -> LeavesOf(item.items[1])
      [] item.type = "dict" ->
            IF \E k \in 1..Len(item.items) : item.items[k].str = Paragraphs
            THEN LeavesOf(item.items[CHOOSE k \in 1..Len(item.items) :
                                         item.items[k].str = Paragraphs])
            ELSE LeavesOfItems(item.items)

LeavesOfItems(items) ==
    IF items = <<>>
    THEN <<>>
    ELSE LeavesOf(Head(items)) \o LeavesOfItems(Tail(items))

(***************************************************************************)
(* C25.  The Text Flattener returns the non-empty trimmed leaf strings of  *)
(* a nested value in depth-first order, None skipped and numbers           *)
(* stringified, and of a dictionary with a "paragraphs" key the leaves     *)
(* under that key only.                                                    *)
(***************************************************************************)
C25_FlattenedLeaves ==
    pc = "flattened" =>
        main_segments =
            SelectSeq([k \in 1..Len(LeavesOf(main_content)) |->
                          TrimmedLeaf(LeavesOf(main_content)[k])],
                      LAMBDA text : text # <<>>)

\* The token "u.i" of fragment i of the unit being built.
ExactToken(i) == NatToStr(siman_num) \o <<".">> \o NatToStr(i)

(***************************************************************************)
(* C26.  As claimed: in a finished unit every marker whose order token is  *)
(* exactly "u.i", fragment i existing, is attached to fragment i with      *)
(* status matched, whatever markers precede it.                            *)
(***************************************************************************)
C26_AsClaimed ==
    pc = "done" =>
        \A p \in Range(MarkerPayloads) :
            \A i \in 1..FragmentCount :
                p.order = ExactToken(i) =>
                    p.status = "matched" /\ p.comment_index = i

(***************************************************************************)
(* C26, amended.  A marker whose order token is exactly "u.i" is attached  *)
(* to fragment i with status matched, under the key "u.i", whenever        *)
(* fragment i has not been consumed by an earlier marker of the unit; the  *)
(* step consumes fragment i.                                               *)
(***************************************************************************)
C26_ExactTokenMatched ==
    [][(MarkerIsResolved /\ \E i \in Unconsumed : NextOrder = ExactToken(i)) =>
          LET p == entries'[Len(entries')].commentary[1]
          IN  /\ p.status = "matched"
              /\ p.resolved_order = NextOrder
              /\ NextOrder = ExactToken(p.comment_index)
              /\ used_indices' = used_indices \cup {p.comment_index}]_vars

\* A finished unit whose marker "1.2" was matched to fragment 2 after an
\* earlier marker had fallen back to fragment 1.
C26_Witness ==
    /\ pc = "done"
    /\ Len(MarkerPayloads) >= 2
    /\ MarkerPayloads[1].status = "fallback"
    /\ MarkerPayloads[1].comment_index = 1
    /\ MarkerPayloads[2].status = "matched"
    /\ MarkerPayloads[2].order = ExactToken(2)
    /\ MarkerPayloads[2].comment_index = 2

\* The names a marker may give the commentary being merged.
MergedNames == {commentary_name, CommentaryDisplay}

\* The markers of the unit's primary text that name the commentary being
\* merged, as TurPlaceholderMerger reads them.
OwnPlaceholders ==
    SelectSeq(ExtractPlaceholders(
                  JoinBySpace(PlaceholderFlatten(main_content, FALSE))),
              LAMBDA ph : ph.commentator \in MergedNames)

(***************************************************************************)
(* C27.  A marker naming another commentary than the one being merged      *)
(* produces no commentary entry and consumes no fragment: every entry a    *)
(* marker produced is of a marker that names the commentary being merged   *)
(* (or names none), and a unit has no more marker entries than markers of  *)
(* that commentary.                                                        *)
(***************************************************************************)
C27_OtherCommentaryIgnored ==
    /\ (merger = "TurCommentaryMerger" /\ pc \in {"scan", "done"}) =>
           \A p \in Range(MarkerPayloads) : p.commentator \in MergedNames
    /\ (merger = "TurPlaceholderMerger" /\ pc = "unit" /\ unit_pos > 1
          /\ OwnPlaceholders # <<>>) =>
           Len(CommentaryPayloads(entries)) <= Len(OwnPlaceholders)

(***************************************************************************)
(* C28.  Within one unit the statuses missing and unplaced exclude each    *)
(* other: a marker is missing only when every fragment of the unit is      *)
(* consumed, so after a missing marker every later marker of the unit is   *)
(* missing and the unit gets no unplaced entry.                            *)
(***************************************************************************)
C28_MissingExcludesUnplaced ==
    pc \in {"scan", "done"} =>
        \A j \in 1..Len(CommentaryPayloads(entries)) :
            CommentaryPayloads(entries)[j].status = "missing" =>
                /\ used_indices = 1..Len(segments)
                /\ \A k \in (j + 1)..Len(CommentaryPayloads(entries)) :
                      CommentaryPayloads(entries)[k].status = "missing"

\* A finished unit with fragments, whose last two markers are missing.
C28_Witness ==
    /\ pc = "done"
    /\ Len(segments) >= 1
    /\ Len(WithStatus(CommentaryPayloads(entries), {"missing"})) >= 2
    /\ UnplacedPayloads = <<>>

\* The numbers of markers and of commentary fragments of the unit, read off
\* its two contents.
MarkerTotal == Len(MarkerOrdersOf(FlattenToStrings(main_content, FALSE)))

FragmentTotal == Len(FlattenToStrings(comm_content, FALSE))

SmallerTotal == IF MarkerTotal <= FragmentTotal THEN MarkerTotal ELSE FragmentTotal

(***************************************************************************)
(* C29.  A finished unit with M markers and N commentary fragments has     *)
(* max(M, N) commentary entries: min(M, N) matched or fallback,            *)
(* M - min(M, N) missing and N - min(M, N) unplaced.                       *)
(***************************************************************************)
C29_EntryCounts ==
    pc = "done" =>
        /\ Len(ConsumingPayloads) = SmallerTotal
        /\ Len(WithStatus(CommentaryPayloads(entries), {"missing"}))
               = MarkerTotal - SmallerTotal
        /\ Len(UnplacedPayloads) = FragmentTotal - SmallerTotal
        /\ Len(CommentaryPayloads(entries))
               = MarkerTotal + FragmentTotal - SmallerTotal

\* A finished unit of three markers and two fragments: the last marker is
\* missing.
C29_Witness ==
    /\ pc = "done"
    /\ MarkerTotal = 3
    /\ FragmentTotal = 2
    /\ Len(WithStatus(CommentaryPayloads(entries), {"missing"})) = 1

====
